---- MODULE Spec2Model ----
(***************************************************************************)
(* State-machine model of the stock-screener dashboard back end:           *)
(*   - parseTopPicksFromMarkdown   (web-next/src/lib/parseReport.ts)       *)
(*   - the route handlers under web-next/src/app/api                       *)
(*                                                                         *)
(* Text is a sequence of one-character strings.  Characters outside ASCII  *)
(* are written by code point: "U+52A8" is one character.                   *)
(* An optional value (a field that may be undefined) is a sequence of      *)
(* length 0 (undefined) or 1.                                              *)
(***************************************************************************)
EXTENDS Integers, Sequences, FiniteSets, Bags, TLC

VARIABLES
    md,        \* parser: the report document, a sequence of lines
    seeded,    \* parser: byCode as it stands after the overview pass
    merged,    \* parser: byCode as it stands after the detail pass
    picks,     \* parser: the returned list, <<>> before the call returns
    pstate,    \* parser: "input" | "done" | "off"
    clock,     \* server: the instant of the request (minutes, UTC) and the zone
    files,     \* server: the files on disk, path -> content
    net,       \* server: what the fetch of the request came to, if it made one
    req,       \* server: the request being served
    io,        \* server: the file and network operations of the handler, in order
    resp,      \* server: the response
    prev,      \* server: the response to the request before this one, when both
               \* are requests to the price endpoint
    home,      \* dashboard: the state of the Home component
    storage,   \* dashboard: localStorage of the browser
    inflight,  \* dashboard: the requests sent and not yet answered, a bag
    events     \* dashboard: the number of user events so far

parserVars == <<md, seeded, merged, picks, pstate>>
serverVars == <<clock, files, net, req, io, resp, prev>>
clientVars == <<home, storage, inflight, events>>
vars == <<md, seeded, merged, picks, pstate, clock, files, net, req, io, resp, prev,
          home, storage, inflight, events>>

---------------------------------------------------------------------------
(* Text *)

Digits == {"0", "1", "2", "3", "4", "5", "6", "7", "8", "9"}

DigitVal(c) ==
    CASE c = "0" -> 0 [] c = "1" -> 1 [] c = "2" -> 2 [] c = "3" -> 3
      [] c = "4" -> 4 [] c = "5" -> 5 [] c = "6" -> 6 [] c = "7" -> 7
      [] c = "8" -> 8 [] c = "9" -> 9

DigitChar(n) ==
    CASE n = 0 -> "0" [] n = 1 -> "1" [] n = 2 -> "2" [] n = 3 -> "3"
      [] n = 4 -> "4" [] n = 5 -> "5" [] n = 6 -> "6" [] n = 7 -> "7"
      [] n = 8 -> "8" [] n = 9 -> "9"

\* \s of a regular expression, and the characters String.prototype.trim strips
IsWs(c) == c \in {" ", "\t"}

AllDigits(s) == \A i \in 1..Len(s) : s[i] \in Digits

RECURSIVE TrimStart(_)
TrimStart(s) ==
    IF s # <<>> /\ IsWs(s[1]) THEN TrimStart(Tail(s)) ELSE s

RECURSIVE TrimEnd(_)
TrimEnd(s) ==
    IF s # <<>> /\ IsWs(s[Len(s)]) THEN TrimEnd(SubSeq(s, 1, Len(s) - 1)) ELSE s

\* String.prototype.trim
Trim(s) == TrimEnd(TrimStart(s))

\* String.prototype.includes
Includes(s, sub) ==
    \E i \in 0..(Len(s) - Len(sub)) : SubSeq(s, i + 1, i + Len(sub)) = sub

RECURSIVE SelectChars(_, _)
SelectChars(s, keep) ==
    IF s = <<>> THEN <<>>
    ELSE (IF s[1] \in keep THEN <<s[1]>> ELSE <<>>) \o SelectChars(Tail(s), keep)

Count(s, c) == Cardinality({i \in 1..Len(s) : s[i] = c})

---------------------------------------------------------------------------
(* JavaScript numbers.  A finite number is m * 10^(-e), kept normalised    *)
(* (e = 0 or m not a multiple of 10) so that equal numbers are equal       *)
(* records.                                                                *)

NaN == [k |-> "NaN", m |-> 0, e |-> 0]
Infinity(sign) == [k |-> "Infinity", m |-> sign, e |-> 0]

RECURSIVE Fin(_, _)
Fin(m, e) ==
    IF e > 0 /\ m % 10 = 0 THEN Fin(m \div 10, e - 1)
    ELSE [k |-> "fin", m |-> m, e |-> e]

\* Number.isFinite
IsFinite(v) == v.k = "fin"

RECURSIVE DigitsValue(_)
DigitsValue(s) ==
    IF s = <<>> THEN 0
    ELSE DigitsValue(SubSeq(s, 1, Len(s) - 1)) * 10 + DigitVal(s[Len(s)])

\* StrUnsignedDecimalLiteral without exponent: digits with at most one dot
\* and at least one digit ("1", "1.", ".5", "1.50"; not ".", "1.2.3")
IsDecimalLiteral(s) ==
    /\ s # <<>>
    /\ \A i \in 1..Len(s) : s[i] \in Digits \cup {"."}
    /\ Count(s, ".") <= 1
    /\ \E i \in 1..Len(s) : s[i] \in Digits

DotAt(s) == IF Count(s, ".") = 0 THEN Len(s) + 1
            ELSE CHOOSE i \in 1..Len(s) : s[i] = "."

DecimalValue(s) ==
    Fin(DigitsValue(SelectChars(s, Digits)),
        IF Count(s, ".") = 0 THEN 0 ELSE Len(s) - DotAt(s))

InfinityText == <<"I", "n", "f", "i", "n", "i", "t", "y">>

\* Number(string): surrounding white space is ignored, the empty string is
\* 0, then an optional sign and "Infinity" or a decimal literal; anything
\* else is NaN.  (The inputs of this model hold no exponent and no 0x/0o/0b
\* literal.)
StringToNumber(s) ==
    LET t    == Trim(s)
        sgn  == IF t # <<>> /\ t[1] = "-" THEN -1 ELSE 1
        body == IF t # <<>> /\ t[1] \in {"+", "-"} THEN Tail(t) ELSE t
    IN  IF t = <<>> THEN Fin(0, 0)
        ELSE IF body = InfinityText THEN Infinity(sgn)
        ELSE IF IsDecimalLiteral(body)
             THEN LET v == DecimalValue(body) IN Fin(sgn * v.m, v.e)
        ELSE NaN

Undefined == <<>>
Some(x) == <<x>>

---------------------------------------------------------------------------
(* parseReport.ts: the lines of a report.                                  *)
(* A line is given by its shape and the tokens in it; the regular          *)
(* expressions of the parser are evaluated on the tokens.                  *)
(*   overview  R ". **" C "** " NAME "|Entry **" E "**|Stop **" S          *)
(*             "**|TP **" T "**|Score **" X "**"      (| is U+FF5C)        *)
(*   heading   "### " R ". " C " " U+2014 " " NAME                         *)
(*   row       "|" KEY "|" VAL "|"                                         *)
(*   bullet    INDENT "-" TEXT                                             *)

OverviewLine(r, c, n, e, s, t, x) ==
    [kind |-> "overview", rank |-> r, code |-> c, name |-> n,
     entry |-> e, stop |-> s, tp |-> t, score |-> x]
HeadingLine(r, c, n) == [kind |-> "heading", rank |-> r, code |-> c, name |-> n]
RowLine(key, val) == [kind |-> "row", key |-> key, val |-> val]
BulletLine(indent, text) == [kind |-> "bullet", indent |-> indent, text |-> text]

\* [0-9.]+
IsNumToken(s) == s # <<>> /\ \A i \in 1..Len(s) : s[i] \in Digits \cup {"."}

\* \d{4} between its delimiters
IsCodeToken(s) == Len(s) = 4 /\ AllDigits(s)

\* /^(\d+)\.\s+\*\*(\d{4})\*\*\s*(.*?)|Entry\s+\*\*([0-9.]+)\*\*|Stop\s+
\*   \*\*([0-9.]+)\*\*|TP\s+\*\*([0-9.]+)\*\*|Score\s+\*\*([0-9.]+)\*\*/
MatchOverview(line) ==
    /\ line.kind = "overview"
    /\ line.rank # <<>> /\ AllDigits(line.rank)
    /\ IsCodeToken(line.code)
    /\ IsNumToken(line.entry) /\ IsNumToken(line.stop)
    /\ IsNumToken(line.tp) /\ IsNumToken(line.score)

\* /^###\s+(\d+)\.\s+(\d{4})\s+U+2014\s+(.+)\s*$/
MatchHeading(line) ==
    /\ line.kind = "heading"
    /\ line.rank # <<>> /\ AllDigits(line.rank)
    /\ IsCodeToken(line.code)
    /\ line.name # <<>>

\* /^\|\s*([^|]+?)\s*\|\s*([^|]+?)\s*\|/
MatchRow(line) ==
    /\ line.kind = "row"
    /\ line.key # <<>> /\ Count(line.key, "|") = 0
    /\ line.val # <<>> /\ Count(line.val, "|") = 0

\* /^\s*\-\s+(.+)$/
MatchBullet(line) ==
    /\ line.kind = "bullet"
    /\ \A i \in 1..Len(line.indent) : IsWs(line.indent[i])
    /\ Len(line.text) >= 2 /\ IsWs(line.text[1])

\* the characters of a bullet line, for line.includes
LineText(line) == line.indent \o <<"-">> \o line.text

KwMomentum == <<"U+52A8", "U+91CF">>
KwEMA == <<"E", "M", "A">>
KwVolatility == <<"U+6CE2", "U+52A8", "U+7387">>
LatestCloseLabel == <<"U+6700", "U+65B0", "U+6536", "U+76D8", "U+4EF7">>

---------------------------------------------------------------------------
(* parseReport.ts: Pick and byCode.                                        *)
(* byCode is the sequence of its values in key insertion order.            *)

\* mutant: the rank of the heading is dropped
NewPickRankZero(rank, code, name) ==
    [rank |-> 0, code |-> code, name |-> name,
     entry |-> Undefined, stop |-> Undefined, takeProfit |-> Undefined,
     score |-> Undefined, close |-> Undefined, reasons |-> Undefined]

NewPick(rank, code, name) ==
    [rank |-> rank, code |-> code, name |-> name,
     entry |-> Undefined, stop |-> Undefined, takeProfit |-> Undefined,
     score |-> Undefined, close |-> Undefined, reasons |-> Undefined]

Has(bc, code) == \E i \in 1..Len(bc) : bc[i].code = code
IndexOf(bc, code) == CHOOSE i \in 1..Len(bc) : bc[i].code = code
Get(bc, code) == bc[IndexOf(bc, code)]

\* byCode[code] = p
Put(bc, p) ==
    IF Has(bc, p.code) THEN [bc EXCEPT ![IndexOf(bc, p.code)] = p]
    ELSE Append(bc, p)

\* Number.isFinite(x) ? x : undefined
FiniteOrUndefined(v) == IF IsFinite(v) THEN Some(v) ELSE Undefined

\* (m[3] || "").trim() || undefined
NameOrUndefined(n) == IF Trim(n) = <<>> THEN Undefined ELSE Some(Trim(n))

\* the object literal of lines 37..45
OverviewPick(line) ==
    [rank |-> StringToNumber(line.rank).m,
     code |-> line.code,
     name |-> NameOrUndefined(line.name),
     entry |-> FiniteOrUndefined(StringToNumber(line.entry)),
     stop |-> FiniteOrUndefined(StringToNumber(line.stop)),
     takeProfit |-> FiniteOrUndefined(StringToNumber(line.tp)),
     score |-> FiniteOrUndefined(StringToNumber(line.score)),
     close |-> Undefined, reasons |-> Undefined]

\* mutant: a later line fills in what the earlier lines left absent
MergedInto(old, new) ==
    [f \in DOMAIN new |-> IF f \in {"rank", "code"} \/ new[f] # Undefined THEN new[f] ELSE old[f]]

RECURSIVE OverviewPassMerging(_, _)
OverviewPassMerging(lines, bc) ==
    IF lines = <<>> THEN bc
    ELSE OverviewPassMerging(Tail(lines),
             IF MatchOverview(lines[1])
             THEN Put(bc, IF Has(bc, lines[1].code)
                          THEN MergedInto(Get(bc, lines[1].code), OverviewPick(lines[1]))
                          ELSE OverviewPick(lines[1]))
             ELSE bc)

\* 1) Parse overview lines
RECURSIVE OverviewPass(_, _)
OverviewPass(lines, bc) ==
    IF lines = <<>> THEN bc
    ELSE OverviewPass(Tail(lines),
                      IF MatchOverview(lines[1]) THEN Put(bc, OverviewPick(lines[1]))
                      ELSE bc)

\* mutant: the heading's rank and name replace the seeded ones
HeadingPickOverwrites(bc, line) ==
    LET c0 == IF Has(bc, line.code) THEN Get(bc, line.code)
              ELSE NewPick(StringToNumber(line.rank).m, line.code,
                           Some(Trim(line.name)))
    IN  [c0 EXCEPT !.rank = StringToNumber(line.rank).m,
                   !.name = Some(Trim(line.name))]

\* cur = byCode[code] ?? {rank, code, name}; cur.rank ??= ...; cur.name ??= ...
HeadingPick(bc, line) ==
    LET c0 == IF Has(bc, line.code) THEN Get(bc, line.code)
              ELSE NewPick(StringToNumber(line.rank).m, line.code,
                           Some(Trim(line.name)))
    IN  [c0 EXCEPT !.rank = c0.rank,   \* a rank is a number, never nullish
                   !.name = IF c0.name = Undefined THEN Some(Trim(line.name))
                            ELSE c0.name]

\* the table row of the latest close
WithClose(p, line) ==
    IF Includes(Trim(line.key), LatestCloseLabel)
    THEN LET num == StringToNumber(SelectChars(Trim(line.val), Digits \cup {"."}))
         IN  IF IsFinite(num) THEN [p EXCEPT !.close = Some(num)] ELSE p
    ELSE p

\* mutant: the third keyword is forgotten
HasKeywordTwoOnly(text) ==
    \/ Includes(text, KwMomentum)
    \/ Includes(text, KwEMA)

HasKeyword(text) ==
    \/ Includes(text, KwMomentum)
    \/ Includes(text, KwEMA)
    \/ Includes(text, KwVolatility)

\* b && (line.includes(...) || ...)
IsReason(line) == MatchBullet(line) /\ HasKeyword(LineText(line))

\* cur.reasons = cur.reasons ?? []; cur.reasons.push(b[1].trim())
WithReason(p, line) ==
    [p EXCEPT !.reasons =
        Some((IF p.reasons = Undefined THEN <<>> ELSE p.reasons[1])
             \o <<Trim(line.text)>>)]

\* mutant: the first heading keeps the context for the rest of the report
DetailLineFirstContext(bc, cur, line) ==
    IF MatchHeading(line)
    THEN <<Put(bc, HeadingPick(bc, line)), IF cur = Undefined THEN Some(line.code) ELSE cur>>
    ELSE IF cur = Undefined THEN <<bc, cur>>
    ELSE LET p0 == Get(bc, cur[1])
             p1 == IF MatchRow(line) THEN WithClose(p0, line) ELSE p0
             p2 == IF IsReason(line) THEN WithReason(p1, line) ELSE p1
         IN  <<Put(bc, p2), cur>>

\* one line of the detail pass: <<byCode, cur>> after it; cur is the code
\* of the current Pick (the Pick object is the one byCode holds)
DetailLine(bc, cur, line) ==
    IF MatchHeading(line)
    THEN <<Put(bc, HeadingPick(bc, line)), Some(line.code)>>
    ELSE IF cur = Undefined THEN <<bc, cur>>
    ELSE LET p0 == Get(bc, cur[1])
             p1 == IF MatchRow(line) THEN WithClose(p0, line) ELSE p0
             p2 == IF IsReason(line) THEN WithReason(p1, line) ELSE p1
         IN  <<Put(bc, p2), cur>>

\* 2) Parse detail sections
RECURSIVE DetailPass(_, _, _)
DetailPass(lines, bc, cur) ==
    IF lines = <<>> THEN bc
    ELSE LET st == DetailLine(bc, cur, lines[1])
         IN  DetailPass(Tail(lines), st[1], st[2])

\* Object.values(byCode): the keys that are array indices ("4004", not
\* "0123") in ascending numeric order, then the other keys in insertion order
IsIndexKey(code) == code[1] # "0"

RECURSIVE AscendingByCode(_)
AscendingByCode(ps) ==
    IF ps = <<>> THEN <<>>
    ELSE LET i == CHOOSE i \in 1..Len(ps) :
                    \A j \in 1..Len(ps) :
                        DigitsValue(ps[i].code) <= DigitsValue(ps[j].code)
         IN  <<ps[i]>> \o
             AscendingByCode(SubSeq(ps, 1, i - 1) \o SubSeq(ps, i + 1, Len(ps)))

IndexKeyed(p) == IsIndexKey(p.code)
StringKeyed(p) == ~IsIndexKey(p.code)

ObjectValues(bc) ==
    AscendingByCode(SelectSeq(bc, IndexKeyed)) \o SelectSeq(bc, StringKeyed)

\* mutant: the filter forgets the rank
IsValidPickCodeOnly(p) == p.code # <<>>

\* .filter((p) => p.rank && p.code)
IsValidPick(p) == p.rank # 0 /\ p.code # <<>>

\* .sort((a, b) => a.rank - b.rank): Array.prototype.sort is stable
RECURSIVE InsertByRank(_, _)
InsertByRank(sorted, p) ==
    IF sorted = <<>> THEN <<p>>
    ELSE IF sorted[Len(sorted)].rank <= p.rank THEN Append(sorted, p)
    ELSE Append(InsertByRank(SubSeq(sorted, 1, Len(sorted) - 1), p),
                sorted[Len(sorted)])

\* mutant: no sort
SortByRankUnsorted(ps) == ps

RECURSIVE SortByRank(_)
SortByRank(ps) ==
    IF ps = <<>> THEN <<>>
    ELSE InsertByRank(SortByRank(SubSeq(ps, 1, Len(ps) - 1)), ps[Len(ps)])

TopN == 10

\* mutant: .slice(0, 9)
SliceTopNine(ps) == SubSeq(ps, 1, IF Len(ps) < TopN - 1 THEN Len(ps) ELSE TopN - 1)

\* .slice(0, 10)
SliceTop(ps) == SubSeq(ps, 1, IF Len(ps) < TopN THEN Len(ps) ELSE TopN)

ByCodeAfterOverview(lines) == OverviewPass(lines, <<>>)
ByCodeAfterDetail(lines) == DetailPass(lines, ByCodeAfterOverview(lines), Undefined)

parseTopPicksFromMarkdown(lines) ==
    SliceTop(SortByRank(SelectSeq(ObjectValues(ByCodeAfterDetail(lines)), IsValidPick)))

---------------------------------------------------------------------------
(* The report documents the parser is run on: up to MaxFree lines drawn    *)
(* from FreeLines, or a generated overview block of n lines (ranks 1..n in *)
(* document order or reversed, one code each) followed by up to MaxTail    *)
(* lines drawn from FreeLines.                                             *)

MaxBase == 11
MaxFree == 3
MaxTail == 2

T(a) == <<a>>
NatText(n) == IF n < 10 THEN <<DigitChar(n)>>
              ELSE <<DigitChar(n \div 10), DigitChar(n % 10)>>

CodeA == <<"4", "0", "0", "4">>
CodeB == <<"0", "1", "2", "3">>
CodeC == <<"1", "3", "3", "2">>
CodeD == <<"9", "9", "8", "4">>
BaseCode(i) == <<"7", "0">> \o (IF i < 10 THEN <<"0">> ELSE <<>>) \o NatText(i)

BaseLine(i, n, rev) ==
    OverviewLine(NatText(IF rev THEN n + 1 - i ELSE i), BaseCode(i),
                 <<"S", DigitChar(i % 10)>>,
                 <<"1", "0", "0">>, <<"9", "0">>, <<"1", "2", "0">>, <<"0", ".", "5">>)

BaseBlock(n, rev) == [i \in 1..n |-> BaseLine(i, n, rev)]

FreeLines ==
    { OverviewLine(T("1"), CodeA, <<" ", "N", " ">>,
                   <<"1", "0">>, <<"9", ".", "5">>, <<"1", "2">>, <<"0", ".", "7", "6", "0">>),
      OverviewLine(T("2"), CodeB, <<>>,
                   <<"1", ".", "2", ".", "3">>, <<".">>, <<"7">>, <<".", "5">>),
      OverviewLine(T("2"), CodeA, <<" ">>,
                   <<"2", "0">>, <<"1", "9">>, <<"2", "5">>, <<"1">>),
      OverviewLine(T("0"), CodeC, <<"Z">>,
                   <<"3">>, <<"2">>, <<"4">>, <<"0">>),
      OverviewLine(T("3"), <<"4", "0", "0", "4", "0">>, <<"X">>,
                   <<"3">>, <<"2">>, <<"4">>, <<"0">>),
      HeadingLine(T("7"), CodeA, <<"H", " ">>),
      HeadingLine(T("1"), CodeD, <<"D">>),
      HeadingLine(T("0"), CodeC, <<"C">>),
      HeadingLine(T("4"), <<"1", "2", "3">>, <<"Y">>),
      RowLine(<<" ">> \o LatestCloseLabel \o <<" ">>,
              <<" ", "9", "3", ".", "5", "0", " ", "U+65E5", "U+5143", " ">>),
      RowLine(<<"P", "E">>, <<"1", "2">>),
      BulletLine(<<>>, <<" ">> \o KwMomentum \o <<" ", "u", "p">>),
      BulletLine(<<" ", " ">>, <<" ", "2", "0", "E", "M", "A", " ">>),
      BulletLine(<<>>, <<" ", "e", "m", "a", " ", "U+52A8">>),
      BulletLine(<<>>, <<" ", "U+6CE2", "U+52A8", "U+7387">>) }

FreeDocsUpTo(k) == UNION {[1..j -> FreeLines] : j \in 0..k}

\* the lines of a detail section: two headings for one code, and
\* latest-close rows with and without a number
SectionLines ==
    { HeadingLine(T("1"), CodeD, <<"D">>),
      HeadingLine(T("2"), CodeD, <<"E">>),
      HeadingLine(T("3"), CodeA, <<"A">>),
      RowLine(LatestCloseLabel, <<" ", "n", "/", "a", " ">>),
      RowLine(LatestCloseLabel, <<"1", "2", ".", "5">>) }

SectionDocsUpTo(k) == UNION {[1..j -> SectionLines] : j \in 0..k}

BaseSizes == {n \in 1..MaxBase : n >= MaxBase - 1}

Documents ==
    FreeDocsUpTo(MaxFree) \cup SectionDocsUpTo(MaxFree) \cup
    {BaseBlock(n, rev) \o f : n \in BaseSizes, rev \in BOOLEAN, f \in FreeDocsUpTo(MaxTail)}

---------------------------------------------------------------------------
(* The parser as a state machine: a document is given, then the call       *)
(* returns.                                                                *)

NoRequest == [ep |-> "none"]
NoResponse == [status |-> 0]
ServerOff ==
    /\ clock = [now |-> 0, zone |-> "UTC"]
    /\ files = [p \in {} |-> <<>>]
    /\ net = [kind |-> "none"]
    /\ req = NoRequest
    /\ io = <<>>
    /\ resp = NoResponse
    /\ prev = NoResponse

ClientOff ==
    /\ home = [mounted |-> FALSE]
    /\ storage = [available |-> FALSE]
    /\ inflight = <<>>
    /\ events = 0

ParserOff ==
    /\ md = <<>>
    /\ seeded = <<>>
    /\ merged = <<>>
    /\ picks = <<>>
    /\ pstate = "off"

ParseInit ==
    /\ md \in Documents
    /\ seeded = <<>>
    /\ merged = <<>>
    /\ picks = <<>>
    /\ pstate = "input"
    /\ ServerOff
    /\ ClientOff

Parse ==
    /\ pstate = "input"
    /\ seeded' = ByCodeAfterOverview(md)
    /\ merged' = ByCodeAfterDetail(md)
    /\ picks' = parseTopPicksFromMarkdown(md)
    /\ pstate' = "done"
    /\ UNCHANGED md
    /\ UNCHANGED serverVars
    /\ UNCHANGED clientVars

\* the next report replaces the one just parsed
NextReport ==
    /\ pstate = "done"
    /\ md' \in {BaseBlock(n, FALSE) : n \in BaseSizes}
    /\ seeded' = <<>>
    /\ merged' = <<>>
    /\ picks' = <<>>
    /\ pstate' = "input"
    /\ UNCHANGED serverVars
    /\ UNCHANGED clientVars

ParseNext == Parse \/ NextReport

ParseSpec == ParseInit /\ [][ParseNext]_vars

---------------------------------------------------------------------------
(* Claims about parseTopPicksFromMarkdown *)

Range(f) == {f[i] : i \in DOMAIN f}
Done == pstate = "done"

\* the Picks of byCode with a rank and a code
ValidPicks == {p \in Range(merged) : p.rank # 0 /\ p.code # <<>>}

\* the lines of md that are overview lines, in document order
OverviewIdx == {i \in DOMAIN md : MatchOverview(md[i])}
HeadingIdx == {i \in DOMAIN md : MatchHeading(md[i])}

\* C1: the result is the valid Picks sorted by ascending rank and cut to the
\* first 10: at most 10 Picks, ranks non-decreasing along the list, every
\* returned Pick a valid one returned once, and no omitted valid Pick has a
\* smaller rank than a returned one.
C1_TopTenByRank ==
    Done =>
        /\ Len(picks) <= 10
        /\ Len(picks) = (IF Cardinality(ValidPicks) < 10 THEN Cardinality(ValidPicks) ELSE 10)
        /\ \A i \in DOMAIN picks : picks[i] \in ValidPicks
        /\ \A i, j \in DOMAIN picks : i < j =>
              picks[i].rank <= picks[j].rank /\ picks[i].code # picks[j].code
        /\ \A p \in ValidPicks \ Range(picks) :
              \A i \in DOMAIN picks : picks[i].rank <= p.rank

\* more than 10 valid Picks, given out of rank order, one left out
C1_Witness ==
    /\ Done
    /\ Cardinality(ValidPicks) > 10
    /\ Len(picks) = 10
    /\ merged[1].rank > merged[2].rank
    /\ \E p \in ValidPicks \ Range(picks) : p.rank > picks[10].rank

\* K valid overview lines, K <= 10, ranks 1..K each used once
C2_Pre ==
    /\ Cardinality(OverviewIdx) <= 10
    /\ \A r \in 1..Cardinality(OverviewIdx) :
          Cardinality({i \in OverviewIdx : StringToNumber(md[i].rank).m = r}) = 1

\* C2 as stated: K valid overview lines (K <= 10, ranks 1..K each once)
\* give exactly K Picks sorted ascending by rank.
C2_Original ==
    (Done /\ C2_Pre) =>
        /\ Len(picks) = Cardinality(OverviewIdx)
        /\ \A i, j \in DOMAIN picks : i < j => picks[i].rank < picks[j].rank

\* the overview lines carry pairwise different codes, and every detail
\* heading is for a code that has an overview line
C2_DistinctCodes ==
    /\ \A i, j \in OverviewIdx : i # j => md[i].code # md[j].code
    /\ \A h \in HeadingIdx : \E i \in OverviewIdx : md[i].code = md[h].code

\* C2 amended: with K valid overview lines (K <= 10, ranks 1..K each once)
\* of pairwise different codes, and no detail heading for a code without
\* an overview line, the result is exactly K Picks, the i-th of rank i.
C2_ExactlyK ==
    (Done /\ C2_Pre /\ C2_DistinctCodes) =>
        /\ Len(picks) = Cardinality(OverviewIdx)
        /\ \A i \in DOMAIN picks : picks[i].rank = i

C2_Witness ==
    /\ Done /\ C2_Pre /\ C2_DistinctCodes
    /\ Cardinality(OverviewIdx) >= 2
    /\ HeadingIdx # {}
    /\ \E i, j \in OverviewIdx :
          i < j /\ StringToNumber(md[i].rank).m > StringToNumber(md[j].rank).m
    /\ Len(picks) = Cardinality(OverviewIdx)

\* C3: every returned Pick has a rank >= 1 and a code of exactly four
\* decimal digits; a Pick of rank 0 is not in the output, whether an
\* overview line or a detail heading made it.
C3_RankAndCode ==
    Done =>
        /\ \A i \in DOMAIN picks :
              /\ picks[i].rank \in Nat /\ picks[i].rank >= 1
              /\ Len(picks[i].code) = 4
              /\ \A k \in 1..4 : picks[i].code[k] \in Digits
        /\ \A p \in Range(merged) : p.rank = 0 => p \notin Range(picks)

\* a Pick of rank 0 made by a heading, beside a returned Pick
C3_Witness ==
    /\ Done
    /\ \E p \in Range(merged) : p.rank = 0 /\ ~Has(seeded, p.code)
    /\ picks # <<>>

\* C4 as stated: no two returned Picks carry the same rank.
C4_UniqueRanks ==
    Done => \A i, j \in DOMAIN picks : i # j => picks[i].rank # picks[j].rank

\* C5: for a code that has an overview line, the returned Pick keeps the
\* rank, the name (when the overview line gave one), entry, stop,
\* takeProfit and score seeded by the overview pass, whatever the detail
\* headings for that code carry.
C5_DetailAugments ==
    Done =>
        \A i \in DOMAIN picks :
            Has(seeded, picks[i].code) =>
                LET s0 == Get(seeded, picks[i].code)
                IN  /\ picks[i].rank = s0.rank
                    /\ s0.name # Undefined => picks[i].name = s0.name
                    /\ picks[i].entry = s0.entry
                    /\ picks[i].stop = s0.stop
                    /\ picks[i].takeProfit = s0.takeProfit
                    /\ picks[i].score = s0.score

\* a returned Pick seeded with a name, whose heading has another rank and
\* another name, and which got its close from the detail pass
C5_Witness ==
    /\ Done
    /\ \E i \in DOMAIN picks :
          /\ Has(seeded, picks[i].code)
          /\ Get(seeded, picks[i].code).name # Undefined
          /\ picks[i].close # Undefined
          /\ \E h \in HeadingIdx :
                /\ md[h].code = picks[i].code
                /\ StringToNumber(md[h].rank).m # picks[i].rank
                /\ Some(Trim(md[h].name)) # picks[i].name

\* the keywords of a rationale bullet
Keywords == {<<"U+52A8", "U+91CF">>, <<"E", "M", "A">>, <<"U+6CE2", "U+52A8", "U+7387">>}

\* the line is a bullet: optional indent, "-", white space, text
IsBulletLine(line) ==
    /\ line.kind = "bullet"
    /\ Len(line.text) >= 2
    /\ line.text[1] \in {" ", "\t"}

ContainsKeyword(line) ==
    \E kw \in Keywords : Includes(line.indent \o <<"-">> \o line.text, kw)

\* the section a line is in: the code of the nearest heading before it
InSection(i, code) ==
    \E h \in HeadingIdx :
        /\ h < i /\ md[h].code = code
        /\ \A g \in HeadingIdx : g < i => g <= h

RECURSIVE ReasonsUpTo(_, _)
ReasonsUpTo(n, code) ==
    IF n = 0 THEN <<>>
    ELSE ReasonsUpTo(n - 1, code) \o
         (IF IsBulletLine(md[n]) /\ InSection(n, code) /\ ContainsKeyword(md[n])
          THEN <<Trim(md[n].text)>> ELSE <<>>)

\* C6: the reasons of a Pick are, in document order, exactly the bullets of
\* its detail sections that contain a keyword; no other bullet is in them.
C6_KeywordBullets ==
    Done =>
        \A p \in Range(merged) :
            LET want == ReasonsUpTo(Len(md), p.code)
            IN  IF want = <<>> THEN p.reasons = Undefined
                ELSE p.reasons = Some(want)

\* a section with an accepted bullet and a bullet without a keyword
C6_Witness ==
    /\ Done
    /\ \E p \in Range(merged) :
          /\ p.reasons # Undefined
          /\ \E i \in DOMAIN md :
                IsBulletLine(md[i]) /\ InSection(i, p.code) /\ ~ContainsKeyword(md[i])

---------------------------------------------------------------------------
(* Dates.  An instant is a number of minutes since 1970-01-01T00:00Z.      *)
(* Date.prototype.toISOString().slice(0, 10) is the UTC calendar date.     *)

\* days since 1970-01-01 of a civil date (proleptic Gregorian)
DaysFromCivil(y, m, d) ==
    LET yy  == IF m <= 2 THEN y - 1 ELSE y
        era == yy \div 400
        yoe == yy - era * 400
        mp  == (m + 9) % 12
        doy == (153 * mp + 2) \div 5 + d - 1
        doe == yoe * 365 + yoe \div 4 - yoe \div 100 + doy
    IN  era * 146097 + doe - 719468

CivilFromDays(z) ==
    LET zz  == z + 719468
        era == zz \div 146097
        doe == zz - era * 146097
        yoe == (doe - doe \div 1460 + doe \div 36524 - doe \div 146096) \div 365
        doy == doe - (365 * yoe + yoe \div 4 - yoe \div 100)
        mp  == (5 * doy + 2) \div 153
        d   == doy - (153 * mp + 2) \div 5 + 1
        m   == IF mp < 10 THEN mp + 3 ELSE mp - 9
        y   == yoe + era * 400 + (IF m <= 2 THEN 1 ELSE 0)
    IN  [y |-> y, m |-> m, d |-> d]

Pad2(n) == <<DigitChar(n \div 10), DigitChar(n % 10)>>
Pad4(n) == <<DigitChar(n \div 1000), DigitChar((n \div 100) % 10),
             DigitChar((n \div 10) % 10), DigitChar(n % 10)>>

\* "YYYY-MM-DD" of a day number (years 0..9999)
IsoDate(day) ==
    LET c == CivilFromDays(day)
    IN  Pad4(c.y) \o <<"-">> \o Pad2(c.m) \o <<"-">> \o Pad2(c.d)

\* d.toISOString().slice(0, 10)
IsoDateOfInstant(t) == IsoDate(t \div 1440)

At(y, m, d, hh, mm) == DaysFromCivil(y, m, d) * 1440 + hh * 60 + mm

\* The zone of the server process: the offset of local time from UTC, in
\* minutes.  America/New_York is on daylight time from the second Sunday
\* of March 07:00Z to the first Sunday of November 06:00Z (2025 and 2026).
Zones == {"UTC", "Asia/Tokyo", "America/New_York"}

Offset(zone, t) ==
    CASE zone = "UTC" -> 0
      [] zone = "Asia/Tokyo" -> 540
      [] zone = "America/New_York" ->
            IF \/ (At(2025, 3, 9, 7, 0) <= t /\ t < At(2025, 11, 2, 6, 0))
               \/ (At(2026, 3, 8, 7, 0) <= t /\ t < At(2026, 11, 1, 6, 0))
            THEN -240 ELSE -300

\* LocalTime(t)
LocalTime(zone, t) == t + Offset(zone, t)

\* UTC(t): the instant of a local time; a local time that occurs twice or
\* not at all is read with the offset in force before the transition
UTCOfLocal(zone, tl) ==
    IF zone # "America/New_York" THEN tl - Offset(zone, 0)
    ELSE LET dst == Offset(zone, tl + 240) = -240
             std == Offset(zone, tl + 300) = -300
         IN  IF dst THEN tl + 240
             ELSE IF std THEN tl + 300
             ELSE tl + 300

\* d = new Date(today); d.setDate(today.getDate() - i): the same local
\* time of day, i local calendar days earlier
SetDateBack(zone, today, i) == UTCOfLocal(zone, LocalTime(zone, today) - i * 1440)

\* the date of candle i of the synthetic series
DummyDate(zone, today, i) == IsoDateOfInstant(SetDateBack(zone, today, i))

---------------------------------------------------------------------------
(* price/[code]/route.ts                                                   *)
(* Prices of the synthetic series are kept in hundredths and rounded down  *)
(* after each multiplication (the code computes them as IEEE doubles).     *)

DummyDays == 220
SeriesCap == 200

Candle(date, open, high, low, close, volume) ==
    [date |-> date, open |-> open, high |-> high, low |-> low,
     close |-> close, volume |-> volume]

Max2(a, b) == IF a >= b THEN a ELSE b
Min2(a, b) == IF a <= b THEN a ELSE b

\* close * (1 + 0.0005) * (1 + (((i % 10) - 5) * 0.001))
NextClose(close, i) ==
    (((close * 10005) \div 10000) * (1000 + (i % 10) - 5)) \div 1000

\* the candle pushed in the turn of day i, given the close before it
DummyCandle(zone, today, i, open) ==
    LET close == NextClose(open, i)
    IN  Candle(DummyDate(zone, today, i),
               Fin(open, 2), Fin((Max2(open, close) * 101) \div 100, 2),
               Fin((Min2(open, close) * 99) \div 100, 2), Fin(close, 2),
               Fin(1500000, 0))

\* one turn of the loop on its variables i, close and series
DummyTurn(zone, today, st) ==
    [i |-> st.i - 1,
     close |-> NextClose(st.close, st.i),
     series |-> Append(st.series, DummyCandle(zone, today, st.i, st.close))]

\* the next n turns of the loop, fewer when it ends before (the turns are
\* taken half by half)
RECURSIVE DummyTurns(_, _, _, _)
DummyTurns(zone, today, st, n) ==
    IF n = 0 \/ st.i < 0 THEN st
    ELSE IF n = 1 THEN DummyTurn(zone, today, st)
    ELSE DummyTurns(zone, today, DummyTurns(zone, today, st, n \div 2), n - n \div 2)

\* for (let i = 220; i >= 0; i--) { ...; series.push(...) }: the loop makes
\* a turn for each i from its first value down to 0
DummyLoop(zone, today, st) == DummyTurns(zone, today, st, st.i + 1).series

\* let close = 1200 + (Number(code) % 500)
DummySeed(code) == (1200 + (StringToNumber(code).m % 500)) * 100

\* mutant: the seed moves with the day of the call
dummySeriesSeededByDay(code, zone, today) ==
    DummyLoop(zone, today,
              [i |-> DummyDays,
               close |-> DummySeed(code) + ((today \div 1440) % 7) * 100,
               series |-> <<>>])

dummySeries(code, zone, today) ==
    DummyLoop(zone, today,
              [i |-> DummyDays, close |-> DummySeed(code), series |-> <<>>])

\* mutant: /\d{4}/ without the anchors
IsCodeParamUnanchored(code) ==
    \E i \in 0..(Len(code) - 4) : AllDigits(SubSeq(code, i + 1, i + 4)) 

\* /^\d{4}$/.test(code)
IsCodeParam(code) == Len(code) = 4 /\ AllDigits(code)

\* path.join(rootDir(), "data_cache", `${code}.jp.csv`)
cachePathForCode(code) ==
    [dir |-> "data_cache", name |-> code \o <<".", "j", "p", ".", "c", "s", "v">>]

existsSync(fs, p) == p \in DOMAIN fs
IoExists(p) == [op |-> "existsSync", path |-> p]
IoRead(p) == [op |-> "readFileSync", path |-> p]

(* A text file is the sequence of its lines (the text between line        *)
(* breaks), a line of a delimited file the sequence of its fields (the     *)
(* text between commas): every text has at least one line and every line   *)
(* at least one field.                                                     *)
IsBlankLine(l) == Len(l) = 1 /\ Trim(l[1]) = <<>>

RECURSIVE DropBlankStart(_)
DropBlankStart(ls) ==
    IF ls # <<>> /\ IsBlankLine(ls[1]) THEN DropBlankStart(Tail(ls)) ELSE ls

RECURSIVE DropBlankEnd(_)
DropBlankEnd(ls) ==
    IF ls # <<>> /\ IsBlankLine(ls[Len(ls)])
    THEN DropBlankEnd(SubSeq(ls, 1, Len(ls) - 1)) ELSE ls

\* text.trim().split(/\r?\n/)
TrimmedLines(text) ==
    LET ls == DropBlankEnd(DropBlankStart(text))
    IN  IF ls = <<>> THEN << <<<<>>>> >>
        ELSE LET a == [ls EXCEPT ![1][1] = TrimStart(@)]
                 n == Len(a)
             IN  [a EXCEPT ![n][Len(a[n])] = TrimEnd(@)]

\* the three continue statements of the loop body
IsCandleRow(parts) ==
    /\ Len(parts) >= 6
    /\ parts[1] # <<>>
    /\ \A k \in 2..6 : IsFinite(StringToNumber(parts[k]))

CandleOfRow(parts) ==
    Candle(parts[1], StringToNumber(parts[2]), StringToNumber(parts[3]),
           StringToNumber(parts[4]), StringToNumber(parts[5]),
           StringToNumber(parts[6]))

\* for (let i = 1; i < lines.length; i++) { ... out.push(...) }: the lines
\* after the first that pass the three continue statements, in order, each
\* pushed as a candle
CacheLoop(lines) ==
    LET rows == SelectSeq(Tail(lines), IsCandleRow)
    IN  [k \in 1..Len(rows) |-> CandleOfRow(rows[k])]

\* mutant: out.slice(0, 200)
SliceFirst(out) == SubSeq(out, 1, Min2(Len(out), SeriesCap))

\* out.slice(-200)
SliceLast(out) == SubSeq(out, Max2(1, Len(out) - SeriesCap + 1), Len(out))

\* GET of the price endpoint: the file operations it makes and its response
PriceHandler(code, fs, clk) ==
    IF ~IsCodeParam(code)
    THEN [io |-> <<>>,
          resp |-> [status |-> 400, ok |-> FALSE, error |-> "invalid code"]]
    ELSE LET p == cachePathForCode(code)
         IN  IF ~existsSync(fs, p)
             THEN [io |-> <<IoExists(p)>>,
                   resp |-> [status |-> 200, ok |-> TRUE, code |-> code,
                             series |-> dummySeries(code, clk.zone, clk.now),
                             dummy |-> TRUE, source |-> "dummy"]]
             ELSE [io |-> <<IoExists(p), IoRead(p)>>,
                   resp |-> [status |-> 200, ok |-> TRUE, code |-> code,
                             series |-> SliceLast(CacheLoop(TrimmedLines(fs[p]))),
                             source |-> "cache"]]

---------------------------------------------------------------------------
(* The price endpoint as a state machine: requests arrive one after the    *)
(* other, each served to its response; the clock moves between requests.   *)

ExtraRows == 2

RECURSIVE NatDigits(_)
NatDigits(n) == IF n < 10 THEN <<DigitChar(n)>>
                ELSE NatDigits(n \div 10) \o <<DigitChar(n % 10)>>

CsvHeader == <<<<"D", "a", "t", "e">>, <<"O", "p", "e", "n">>, <<"H", "i", "g", "h">>, <<"L", "o", "w">>, <<"C", "l", "o", "s", "e">>, <<"V", "o", "l", "u", "m", "e">>>>

FirstRowDay == DaysFromCivil(2025, 6, 1)

GoodRow(i) ==
    <<IsoDate(FirstRowDay + i), NatDigits(100 + (i % 7)), NatDigits(102 + (i % 7)),
      NatDigits(98 + (i % 7)), NatDigits(101 + (i % 7)) \o <<".", "5">>, NatDigits(1000 + i)>>

RowKinds == {"cols5", "noDate", "textVolume", "infClose", "dotsOpen",
             "cols7", "emptyVolume", "emptyClose", "blank", "spaceDate",
             "textDate"}

OddRow(i, kind) ==
    LET g == GoodRow(i)
    IN  CASE kind = "cols5" -> SubSeq(g, 1, 5)
          [] kind = "noDate" -> [g EXCEPT ![1] = <<>>]
          [] kind = "textVolume" -> [g EXCEPT ![6] = <<"N", "/", "A">>]
          [] kind = "infClose" -> [g EXCEPT ![5] = <<"I", "n", "f", "i", "n", "i", "t", "y">>]
          [] kind = "dotsOpen" -> [g EXCEPT ![2] = <<"1", ".", "2", ".", "3">>]
          [] kind = "cols7" -> Append(g, <<"x">>)
          [] kind = "emptyVolume" -> [g EXCEPT ![6] = <<>>]
          [] kind = "emptyClose" -> [g EXCEPT ![5] = <<>>]
          [] kind = "blank" -> << <<>> >>
          [] kind = "spaceDate" -> [g EXCEPT ![1] = <<" ">>]
          [] kind = "textDate" -> [g EXCEPT ![1] = <<"n", "/", "a">>]

\* header, n rows (the row at pos of the given kind), and the empty line
\* after the final line break when the file ends with one
CsvText(n, pos, kind, newline) ==
    <<CsvHeader>> \o [i \in 1..n |-> IF i = pos THEN OddRow(i, kind) ELSE GoodRow(i)]
    \o (IF newline THEN << << <<>> >> >> ELSE <<>>)

EmptyText == << << <<>> >> >>

\* short files with a row of every kind, and files of about SeriesCap rows
\* with a row that is left out or a row with a blank field, at the head or
\* among the latest lines
LongSizes == {SeriesCap + k : k \in 0..ExtraRows}

CsvTexts ==
    {CsvText(3, 2, kind, TRUE) : kind \in RowKinds}
    \cup {CsvText(n, pos, kind, TRUE) :
            n \in LongSizes, pos \in {1, SeriesCap + 1},
            kind \in {"textVolume", "emptyVolume"}}
    \cup {CsvText(n, 0, "cols5", FALSE) : n \in {0, 3, SeriesCap + ExtraRows}}
    \cup {EmptyText}

CachedCode == <<"1", "2", "3", "4">>
PriceCodes == {CachedCode, <<"9", "9", "9", "9">>, <<"0", "0", "0", "7">>, <<"1", "2", "3", "4", "5">>, <<"a", "b", "c", "d">>}

NoFiles == [p \in {} |-> <<>>]
OneFile(p, text) == [x \in {p} |-> text]

Instants == <<At(2026, 3, 15, 12, 0), At(2026, 3, 15, 23, 30), At(2026, 3, 16, 0, 30)>>

NoNet == [kind |-> "none"]

PriceInit ==
    /\ \/ /\ files \in {OneFile(cachePathForCode(CachedCode), t) : t \in CsvTexts}
          /\ clock = [now |-> Instants[Len(Instants)], zone |-> "UTC"]
       \/ /\ files = NoFiles
          /\ clock \in [now : {Instants[1]}, zone : Zones]
    /\ net = NoNet
    /\ req = NoRequest
    /\ io = <<>>
    /\ resp = NoResponse
    /\ prev = NoResponse
    /\ ParserOff
    /\ ClientOff

\* the response to the request before the next one, kept when that request
\* is to the price endpoint
PrevPrice == IF req.ep = "price" THEN resp ELSE NoResponse

PriceGET(code) ==
    /\ req' = [ep |-> "price", param |-> code, at |-> clock.now]
    /\ LET r == PriceHandler(code, files, clock)
       IN  io' = r.io /\ resp' = r.resp
    /\ net' = NoNet
    /\ prev' = PrevPrice
    /\ UNCHANGED <<clock, files>>
    /\ UNCHANGED parserVars
    /\ UNCHANGED clientVars

\* time passes between two requests
Tick ==
    /\ \E k \in 1..(Len(Instants) - 1) :
          /\ clock.now = Instants[k]
          /\ clock' = [clock EXCEPT !.now = Instants[k + 1]]
    /\ UNCHANGED <<files, net, req, io, resp, prev>>
    /\ UNCHANGED parserVars
    /\ UNCHANGED clientVars

PriceNext == (\E code \in PriceCodes : PriceGET(code)) \/ Tick

PriceSpec == PriceInit /\ [][PriceNext]_vars

---------------------------------------------------------------------------
(* Claims about the price endpoint *)

FourDigits(s) == Len(s) = 4 /\ \A i \in 1..4 : s[i] \in Digits

PriceServed == req.ep = "price" /\ FourDigits(req.param)
CacheFileOf(code) == [dir |-> "data_cache", name |-> code \o <<".", "j", "p", ".", "c", "s", "v">>]
NoCacheCase == PriceServed /\ CacheFileOf(req.param) \notin DOMAIN files
CacheCase == PriceServed /\ CacheFileOf(req.param) \in DOMAIN files

\* YYYYMMDD of an ISO date, for comparing dates
DateKey(d) == DigitsValue(SelectChars(d, Digits))

\* the UTC calendar day of the request
DayOfRequest == IsoDate(req.at \div 1440)

\* C8 as stated: with no cache file the price endpoint answers a success
\* with exactly 221 candles, dates strictly increasing and ending at the
\* current day, source "dummy" and the flag dummy = true.
C8_DummySeries ==
    NoCacheCase =>
        /\ resp.status = 200 /\ resp.ok
        /\ resp.source = "dummy" /\ resp.dummy = TRUE
        /\ Len(resp.series) = 221
        /\ \A i \in 1..(Len(resp.series) - 1) :
              DateKey(resp.series[i].date) < DateKey(resp.series[i + 1].date)
        /\ resp.series[Len(resp.series)].date = DayOfRequest

\* the part of C8 that holds in every zone: 221 candles, the last of the
\* day of the request (UTC), dates never decreasing, tagged "dummy"
C8_CountAndTags ==
    NoCacheCase =>
        /\ resp.status = 200 /\ resp.ok
        /\ resp.source = "dummy" /\ resp.dummy = TRUE
        /\ Len(resp.series) = 221
        /\ \A i \in 1..(Len(resp.series) - 1) :
              DateKey(resp.series[i].date) <= DateKey(resp.series[i + 1].date)
        /\ resp.series[Len(resp.series)].date = DayOfRequest

IsDummyResponse(r) == r.status = 200 /\ "dummy" \in DOMAIN r

\* two calls of the price endpoint for the same code with no cache file
DummyPair ==
    /\ req.ep = "price"
    /\ IsDummyResponse(prev) /\ IsDummyResponse(resp)
    /\ prev.code = resp.code

Values(c) == <<c.open, c.high, c.low, c.close, c.volume>>

ReadsAsFiniteNumber(f) ==
    LET t == Trim(f)
        u == IF t # <<>> /\ t[1] \in {"+", "-"} THEN Tail(t) ELSE t
    IN  \/ t = <<>>
        \/ /\ u # <<>>
           /\ \A i \in 1..Len(u) : u[i] \in Digits \cup {"."}
           /\ Cardinality({i \in 1..Len(u) : u[i] = "."}) <= 1
           /\ \E i \in 1..Len(u) : u[i] \in Digits

Malformed(row) ==
    \/ Len(row) < 6
    \/ row[1] = <<>>
    \/ \E k \in 2..6 : ~ReadsAsFiniteNumber(row[k])

WellFormed(row) == ~Malformed(row)

\* the data rows of the cache file: its lines after the header row
DataRows == Tail(files[CacheFileOf(req.param)])
ValidRows == SelectSeq(DataRows, WellFormed)

\* the last n of a sequence of rows, all of them when there are no more
LastOf(rows, n) ==
    SubSeq(rows, IF Len(rows) > n THEN Len(rows) - n + 1 ELSE 1, Len(rows))

\* a row read as a candle: its date text and its five numbers
RowAsCandle(row) ==
    [date |-> row[1], open |-> StringToNumber(row[2]),
     high |-> StringToNumber(row[3]), low |-> StringToNumber(row[4]),
     close |-> StringToNumber(row[5]), volume |-> StringToNumber(row[6])]

RowsAsCandles(rows) == [i \in 1..Len(rows) |-> RowAsCandle(rows[i])]

\* C10: with a cache file the series is, tagged "cache", the well-formed
\* data rows of the file in file order, cut to the last 200 of them; a row
\* is left out exactly when it is malformed or older than those 200.
C10_CacheRows ==
    CacheCase =>
        /\ resp.status = 200 /\ resp.ok /\ resp.source = "cache"
        /\ resp.series = RowsAsCandles(LastOf(ValidRows, 200))

\* more than 200 valid rows and a malformed row among the latest lines
C10_Witness ==
    /\ CacheCase
    /\ Len(ValidRows) > 200
    /\ Len(resp.series) = 200
    /\ \E i \in DOMAIN DataRows :
          /\ i > Len(DataRows) - 200
          /\ Len(DataRows[i]) = 6 /\ Malformed(DataRows[i])

---------------------------------------------------------------------------
(* predict/[code]/route.ts                                                 *)
(* The regression is computed exactly, on the closes scaled to a common    *)
(* number of decimals (the code computes it in IEEE doubles).              *)

MinCloses == 30
Window == 60
Horizon == 10

\* the day number of "YYYY-MM-DD" when it names a calendar day
IsDayText(s) ==
    /\ Len(s) = 10 /\ s[5] = "-" /\ s[8] = "-"
    /\ AllDigits(SubSeq(s, 1, 4)) /\ AllDigits(SubSeq(s, 6, 7)) /\ AllDigits(SubSeq(s, 9, 10))
    /\ LET y == DigitsValue(SubSeq(s, 1, 4))
           m == DigitsValue(SubSeq(s, 6, 7))
           d == DigitsValue(SubSeq(s, 9, 10))
       IN  /\ m \in 1..12 /\ d >= 1
           /\ IsoDate(DaysFromCivil(y, m, d)) = s

DayOfText(s) ==
    DaysFromCivil(DigitsValue(SubSeq(s, 1, 4)), DigitsValue(SubSeq(s, 6, 7)),
                  DigitsValue(SubSeq(s, 9, 10)))

\* new Date(iso + "T00:00:00Z") is a valid date (the texts of this model
\* are calendar days or hold no date at all)
IsValidDate(iso) == IsDayText(iso)

\* addDaysISO(iso, days), for a valid date
addDaysISO(iso, days) == IsoDate(DayOfText(iso) + days)

\* `https://stooq.com/q/d/l/?s=${encodeURIComponent(sym)}&i=d`
StooqUrl(code) == [host |-> "stooq.com", path |-> "/q/d/l/", s |-> code \o <<".", "j", "p">>, i |-> "d"]

IoFetch(url) == [op |-> "fetch", url |-> url]

\* r.ok
IsOkStatus(status) == status \in 200..299

\* mutant: a row needs 5 columns only
IsBarRowFiveColumns(parts) ==
    /\ Len(parts) >= 5
    /\ parts[1] # <<>>
    /\ IsFinite(StringToNumber(parts[5]))

\* the two continue statements of the loop body
IsBarRow(parts) ==
    /\ Len(parts) >= 6
    /\ parts[1] # <<>>
    /\ IsFinite(StringToNumber(parts[5]))

BarOfRow(parts) == [date |-> parts[1], close |-> StringToNumber(parts[5])]

\* for (let i = 1; i < lines.length; i++) { ... series.push({ date, close }) }
BarLoop(lines) ==
    LET rows == SelectSeq(Tail(lines), IsBarRow)
    IN  [k \in 1..Len(rows) |-> BarOfRow(rows[k])]

\* series.map((x) => x.close).filter((x) => Number.isFinite(x))
ClosesOf(series) ==
    LET all == [k \in 1..Len(series) |-> series[k].close]
    IN  SelectSeq(all, IsFinite)

Pow10(n) == IF n = 0 THEN 1 ELSE IF n = 1 THEN 10 ELSE IF n = 2 THEN 100 ELSE 1000

\* the decimals needed to write every close of y
Decimals(y) ==
    IF y = <<>> THEN 0
    ELSE CHOOSE e \in {y[k].e : k \in 1..Len(y)} : \A k \in 1..Len(y) : y[k].e <= e

\* the close y[k] in units of 10^-dec
Scaled(v, dec) == v.m * Pow10(dec - v.e)

\* f[lo] + ... + f[hi]
RECURSIVE Sum(_, _, _)
Sum(f, lo, hi) ==
    IF lo > hi THEN 0
    ELSE IF lo = hi THEN f[lo]
    ELSE Sum(f, lo, (lo + hi) \div 2) + Sum(f, (lo + hi) \div 2 + 1, hi)

\* round half away from zero of a / b, b > 0 (Number.prototype.toFixed)
RoundDiv(a, b) ==
    IF a >= 0 THEN (2 * a + b) \div (2 * b)
    ELSE -((2 * (-a) + b) \div (2 * b))

(* With x[i] = i, xMean = (N - 1) / 2 and S = sum of (2 x[i] - (N - 1)) y[i]: *)
(*   num = S / 2, den = N (N^2 - 1) / 12, slope = num / den,                 *)
(*   intercept + slope * xi                                                  *)
(*       = ((N^2 - 1) sum(y) + 3 S (2 xi - (N - 1))) / (N (N^2 - 1)).        *)
\* Number(pred.toFixed(2)) for xi = N - 1 + k
Predicted(y, k) ==
    LET N   == Len(y)
        dec == Decimals(y)
        ys  == [i \in 1..N |-> Scaled(y[i], dec)]
        S   == Sum([i \in 1..N |-> (2 * (i - 1) - (N - 1)) * ys[i]], 1, N)
        sum == Sum(ys, 1, N)
        xi  == N - 1 + k
        top == (N * N - 1) * sum + 3 * S * (2 * xi - (N - 1))
        bot == N * (N * N - 1)
        q   == IF top >= 0 THEN top \div bot ELSE -((-top) \div bot)
        r   == top - q * bot
    IN  IF dec <= 2
        THEN Fin(q * Pow10(2 - dec) + RoundDiv(r * Pow10(2 - dec), bot), 2)
        ELSE Fin(RoundDiv(top, bot * Pow10(dec - 2)), 2)

\* mutant: the projection starts one index late
ForecastOneAhead(series, y) ==
    LET lastDate == series[Len(series)].date
    IN  [k \in 1..Horizon |-> [date |-> addDaysISO(lastDate, k), close |-> Predicted(y, k + 1)]]

\* Array.from({ length: horizon }, (_, k) => ...)
Forecast(series, y) ==
    LET lastDate == series[Len(series)].date
    IN  [k \in 1..Horizon |-> [date |-> addDaysISO(lastDate, k), close |-> Predicted(y, k)]]

\* mutant: the line is fitted on every close
PredictBodyWholeSeries(code, text) ==
    LET series == BarLoop(TrimmedLines(text))
        closes == ClosesOf(series)
    IN  IF Len(closes) < MinCloses
        THEN [status |-> 200, ok |-> TRUE, code |-> code, forecast |-> <<>>]
        ELSE IF ~IsValidDate(series[Len(series)].date)
        THEN [status |-> 500, thrown |-> "RangeError"]
        ELSE [status |-> 200, ok |-> TRUE, code |-> code,
              forecast |-> Forecast(series, closes),
              method |-> "linear-regression-close"]

\* the response to an upstream answer with an ok status
PredictBody(code, text) ==
    LET series == BarLoop(TrimmedLines(text))
        closes == ClosesOf(series)
        N      == Min2(Window, Len(closes))
        y      == SubSeq(closes, Len(closes) - N + 1, Len(closes))
    IN  IF Len(closes) < MinCloses
        THEN [status |-> 200, ok |-> TRUE, code |-> code, forecast |-> <<>>]
        ELSE IF ~IsValidDate(series[Len(series)].date)
        THEN [status |-> 500, thrown |-> "RangeError"]
        ELSE [status |-> 200, ok |-> TRUE, code |-> code,
              forecast |-> Forecast(series, y),
              method |-> "linear-regression-close"]

\* GET of the forecast endpoint; ans is what the fetch comes to: an answer
\* of the upstream, no answer within the time limit, or a failed connection
PredictHandler(code, ans) ==
    IF ~IsCodeParam(code)
    THEN [io |-> <<>>,
          resp |-> [status |-> 400, ok |-> FALSE, error |-> "invalid code"]]
    ELSE [io |-> <<IoFetch(StooqUrl(code))>>,
          resp |->
            CASE ans.kind = "timeout" -> [status |-> 500, thrown |-> "AbortError"]
              [] ans.kind = "failed" -> [status |-> 500, thrown |-> "TypeError"]
              [] ans.kind = "answer" /\ ~IsOkStatus(ans.status) ->
                    [status |-> 502, ok |-> FALSE, error |-> "stooq error",
                     upstream |-> ans.status]
              [] ans.kind = "answer" /\ IsOkStatus(ans.status) ->
                    PredictBody(code, ans.text)]

---------------------------------------------------------------------------
(* report/picks/[asof]/route.ts and report/html/[asof]/route.ts            *)

\* /^\d{4}-\d{2}-\d{2}$/.test(asof)
IsAsofParam(asof) ==
    /\ Len(asof) = 10
    /\ AllDigits(SubSeq(asof, 1, 4)) /\ asof[5] = "-"
    /\ AllDigits(SubSeq(asof, 6, 7)) /\ asof[8] = "-"
    /\ AllDigits(SubSeq(asof, 9, 10))

\* path.join(rootDir(), "reports", `nikkei-picks-${asof}.json`)
picksPathForAsof(asof) ==
    [dir |-> "reports", name |-> <<"n", "i", "k", "k", "e", "i", "-", "p", "i", "c", "k", "s", "-">> \o asof \o <<".", "j", "s", "o", "n">>]

\* path.join(rootDir(), "reports", `nikkei-report-${asof}.html`)
reportPathForAsof(asof) ==
    [dir |-> "reports", name |-> <<"n", "i", "k", "k", "e", "i", "-", "r", "e", "p", "o", "r", "t", "-">> \o asof \o <<".", "h", "t", "m", "l">>]

(* The text of a sidecar file is either no JSON at all, or the JSON of an  *)
(* object whose picks member is absent or an array of objects; a member of *)
(* an entry is an optional value, its code a number or a string.           *)
JsonNumber(n) == [t |-> "num", v |-> n]
JsonString(s) == [t |-> "str", v |-> s]

\* String(x.code)
StringOf(code) ==
    IF code = Undefined THEN <<"u", "n", "d", "e", "f", "i", "n", "e", "d">>
    ELSE IF code[1].t = "num" THEN NatDigits(code[1].v)
    ELSE code[1].v

\* mutant: the rank is the index
PickOfEntryZeroBased(x, idx) ==
    [rank |-> idx, code |-> StringOf(x.code), name |-> x.name,
     score |-> x.score, close |-> x.close, entry |-> x.entry, stop |-> x.stop,
     takeProfit |-> x.take_profit, reasons |-> x.reasons]

\* the element the map makes of entry x at index idx (0-based)
PickOfEntry(x, idx) ==
    [rank |-> idx + 1, code |-> StringOf(x.code), name |-> x.name,
     score |-> x.score, close |-> x.close, entry |-> x.entry, stop |-> x.stop,
     takeProfit |-> x.take_profit, reasons |-> x.reasons]

\* (j.picks ?? []).map(...)
PicksOfJson(j) ==
    LET arr == IF j.picks = Undefined THEN <<>> ELSE j.picks[1]
    IN  [i \in 1..Len(arr) |-> PickOfEntry(arr[i], i - 1)]

\* mutant: a missing sidecar is answered with an empty list
PicksHandlerEmptyList(asof, fs) ==
    IF ~IsAsofParam(asof)
    THEN [io |-> <<>>,
          resp |-> [status |-> 400, ok |-> FALSE, error |-> "invalid asof"]]
    ELSE LET p == picksPathForAsof(asof)
         IN  IF ~existsSync(fs, p)
             THEN [io |-> <<IoExists(p)>>,
                   resp |-> [status |-> 200, ok |-> TRUE, asof |-> asof, picks |-> <<>>]]
             ELSE [io |-> <<IoExists(p), IoRead(p)>>,
                   resp |-> IF fs[p].kind # "json"
                            THEN [status |-> 500, thrown |-> "SyntaxError"]
                            ELSE [status |-> 200, ok |-> TRUE, asof |-> asof,
                                  picks |-> PicksOfJson(fs[p])]]

\* GET of the picks-by-date endpoint
PicksHandler(asof, fs) ==
    IF ~IsAsofParam(asof)
    THEN [io |-> <<>>,
          resp |-> [status |-> 400, ok |-> FALSE, error |-> "invalid asof"]]
    ELSE LET p == picksPathForAsof(asof)
         IN  IF ~existsSync(fs, p)
             THEN [io |-> <<IoExists(p)>>,
                   resp |-> [status |-> 404, ok |-> FALSE, error |-> "not found"]]
             ELSE [io |-> <<IoExists(p), IoRead(p)>>,
                   resp |-> IF fs[p].kind # "json"
                            THEN [status |-> 500, thrown |-> "SyntaxError"]
                            ELSE [status |-> 200, ok |-> TRUE, asof |-> asof,
                                  picks |-> PicksOfJson(fs[p])]]

(* The text of a report is a sequence of pieces, the closing tag of the    *)
(* head one piece.                                                         *)
HeadEnd == "</head>"
EinkCss == "<style id=\"eink-mode\">"

FirstIndexOf(html, piece) ==
    CHOOSE i \in 1..Len(html) : html[i] = piece /\ \A j \in 1..(i - 1) : html[j] # piece

\* injectEinkCss
injectEinkCss(html) ==
    IF \E i \in 1..Len(html) : html[i] = HeadEnd
    THEN LET i == FirstIndexOf(html, HeadEnd)
         IN  SubSeq(html, 1, i - 1) \o <<EinkCss, "\n", HeadEnd>>
             \o SubSeq(html, i + 1, Len(html))
    ELSE <<EinkCss, "\n">> \o html

UpperCase == <<"A", "B", "C", "D", "E", "F", "G", "H", "I", "J", "K", "L", "M", "N", "O", "P", "Q", "R", "S", "T", "U", "V", "W", "X", "Y", "Z">>
LowerCase == <<"a", "b", "c", "d", "e", "f", "g", "h", "i", "j", "k", "l", "m", "n", "o", "p", "q", "r", "s", "t", "u", "v", "w", "x", "y", "z">>

\* String.prototype.toLowerCase (ASCII)
toLowerCase(s) ==
    [i \in 1..Len(s) |->
        IF \E k \in 1..26 : UpperCase[k] = s[i]
        THEN LowerCase[CHOOSE k \in 1..26 : UpperCase[k] = s[i]]
        ELSE s[i]]

\* (url.searchParams.get("mode") || "").toLowerCase() === "eink"
IsEinkMode(mode) ==
    toLowerCase(IF mode = Undefined THEN <<>> ELSE mode[1]) = <<"e", "i", "n", "k">>

HtmlResponse(html) ==
    [status |-> 200, body |-> html,
     contentType |-> "text/html; charset=utf-8", cacheControl |-> "no-store"]

\* GET of the report-html-by-date endpoint
HtmlHandler(asof, mode, fs) ==
    IF ~IsAsofParam(asof)
    THEN [io |-> <<>>,
          resp |-> [status |-> 400, ok |-> FALSE, error |-> "invalid asof"]]
    ELSE LET p == reportPathForAsof(asof)
         IN  IF ~existsSync(fs, p)
             THEN [io |-> <<IoExists(p)>>,
                   resp |-> [status |-> 404, ok |-> FALSE, error |-> "not found"]]
             ELSE [io |-> <<IoExists(p), IoRead(p)>>,
                   resp |-> HtmlResponse(IF IsEinkMode(mode)
                                         THEN injectEinkCss(fs[p].html)
                                         ELSE fs[p].html)]

\* GET of the report-by-date endpoint that serves the file as it is
ReportHandler(asof, fs) ==
    IF ~IsAsofParam(asof)
    THEN [io |-> <<>>,
          resp |-> [status |-> 400, ok |-> FALSE, error |-> "invalid asof"]]
    ELSE LET p == reportPathForAsof(asof)
         IN  IF ~existsSync(fs, p)
             THEN [io |-> <<IoExists(p)>>,
                   resp |-> [status |-> 404, ok |-> FALSE, error |-> "not found"]]
             ELSE [io |-> <<IoExists(p), IoRead(p)>>,
                   resp |-> HtmlResponse(fs[p].html)]

---------------------------------------------------------------------------
(* report/dates/route.ts *)

\* path.join(rootDir(), "reports")
reportsDir == "reports"

\* the names of the entries of directory dir
NamesIn(fs, dir) == {p.name : p \in {q \in DOMAIN fs : q.dir = dir}}

\* a set of names as a sequence, in some fixed order
RECURSIVE SeqOfNames(_)
SeqOfNames(S) ==
    IF S = {} THEN <<>>
    ELSE LET x == CHOOSE y \in S : TRUE IN <<x>> \o SeqOfNames(S \ {x})

Reversed(s) == [i \in 1..Len(s) |-> s[Len(s) + 1 - i]]

\* the orders in which a directory lists its names
Listings(S) ==
    LET base == SeqOfNames(S)
        n == Len(base)
        rot(k) == [i \in 1..n |-> base[((i + k - 1) % n) + 1]]
    IN  IF n = 0 THEN {<<>>}
        ELSE {rot(k) : k \in 0..(n - 1)} \cup {Reversed(rot(k)) : k \in 0..(n - 1)}

\* what fs.readdirSync(dir) comes to: the names in the order of the
\* directory, or an exception when the directory is missing or unreadable
ReaddirOutcomes(fs, dir) ==
    {[kind |-> "names", names |-> l] : l \in Listings(NamesIn(fs, dir))}
    \cup {[kind |-> "throws", error |-> "EACCES"]}
    \cup (IF NamesIn(fs, dir) = {} THEN {[kind |-> "throws", error |-> "ENOENT"]} ELSE {})

IoReaddir(dir, out) == [op |-> "readdirSync", path |-> dir, result |-> out]

ReportPrefix == <<"n", "i", "k", "k", "e", "i", "-", "r", "e", "p", "o", "r", "t", "-">>
HtmlSuffix == <<".", "h", "t", "m", "l">>

\* mutant: the pattern without its end anchor
MatchReportNameNoEnd(f) ==
    IF /\ Len(f) >= 29
       /\ SubSeq(f, 1, 14) = ReportPrefix
       /\ IsAsofParam(SubSeq(f, 15, 24))
       /\ SubSeq(f, 25, 29) = HtmlSuffix
    THEN Some(SubSeq(f, 15, 24))
    ELSE Undefined

\* f.match(/^nikkei-report-(\d{4}-\d{2}-\d{2})\.html$/): the group, or null
MatchReportName(f) ==
    IF /\ Len(f) = 29
       /\ SubSeq(f, 1, 14) = ReportPrefix
       /\ IsAsofParam(SubSeq(f, 15, 24))
       /\ SubSeq(f, 25, 29) = HtmlSuffix
    THEN Some(SubSeq(f, 15, 24))
    ELSE Undefined

\* .map(f => m ? m[1] : null).filter(x => Boolean(x))
MatchedDates(names) ==
    LET hit == SelectSeq(names, LAMBDA f : MatchReportName(f) # Undefined)
    IN  [i \in 1..Len(hit) |-> MatchReportName(hit[i])[1]]

\* the UTF-16 code unit of a character of a matched date
CodeUnit(c) == IF c = "-" THEN 45 ELSE 48 + DigitVal(c)

\* a < b as Array.prototype.sort() compares strings: by code units
RECURSIVE StringLess(_, _)
StringLess(a, b) ==
    IF b = <<>> THEN FALSE
    ELSE IF a = <<>> THEN TRUE
    ELSE IF a[1] # b[1] THEN CodeUnit(a[1]) < CodeUnit(b[1])
    ELSE StringLess(Tail(a), Tail(b))

RECURSIVE InsertString(_, _)
InsertString(sorted, x) ==
    IF sorted = <<>> THEN <<x>>
    ELSE IF ~StringLess(x, sorted[Len(sorted)]) THEN Append(sorted, x)
    ELSE Append(InsertString(SubSeq(sorted, 1, Len(sorted) - 1), x),
                sorted[Len(sorted)])

\* .sort()
RECURSIVE SortStrings(_)
SortStrings(xs) ==
    IF xs = <<>> THEN <<>>
    ELSE InsertString(SortStrings(SubSeq(xs, 1, Len(xs) - 1)), xs[Len(xs)])

\* mutant: the exception of readdirSync is not caught
DatesHandlerUncaught(out) ==
    [io |-> <<IoReaddir(reportsDir, out)>>,
     resp |-> IF out.kind = "throws"
              THEN [status |-> 500, thrown |-> out.error]
              ELSE [status |-> 200, ok |-> TRUE,
                    dates |-> Reversed(SortStrings(MatchedDates(out.names)))]]

\* GET of the report-dates endpoint, readdirSync coming to out
DatesHandler(out) ==
    [io |-> <<IoReaddir(reportsDir, out)>>,
     resp |-> [status |-> 200, ok |-> TRUE,
               dates |-> IF out.kind = "throws" THEN <<>>
                         ELSE Reversed(SortStrings(MatchedDates(out.names)))]]

---------------------------------------------------------------------------
(* The API as a state machine: requests arrive one after the other, each   *)
(* served to its response by its route handler.                            *)

BodyExtra == 1

\* a sidecar entry with every member, and one with a code only
FullEntry ==
    [code |-> Some(JsonNumber(7203)), name |-> Some(<<"T", "o", "y", "o", "t", "a">>),
     score |-> Some(Fin(875, 1)), close |-> Some(Fin(2900, 0)),
     entry |-> Some(Fin(2910, 0)), stop |-> Some(Fin(2800, 0)),
     take_profit |-> Some(Fin(3100, 0)), reasons |-> Some(<<<<"E", "M", "A">>>>)]

BareEntry ==
    [code |-> Some(JsonString(<<"6", "7", "5", "8">>)), name |-> Undefined,
     score |-> Undefined, close |-> Undefined, entry |-> Undefined,
     stop |-> Undefined, take_profit |-> Undefined, reasons |-> Undefined]

SidecarOfTwo == [kind |-> "json", picks |-> Some(<<FullEntry, BareEntry>>)]
\* an entry with nothing but a numeric code
CodeEntry(n) == [BareEntry EXCEPT !.code = Some(JsonNumber(n))]

\* more entries than the top list holds, the last with a code of one digit
SidecarExtra == 1
SidecarOfMany ==
    [kind |-> "json",
     picks |-> Some([i \in 1..(TopN + SidecarExtra) |->
                        IF i = TopN + SidecarExtra THEN CodeEntry(7) ELSE CodeEntry(7000 + i)])]

SidecarNoPicks == [kind |-> "json", picks |-> Undefined]
SidecarBroken == [kind |-> "text"]

ReportWithHead ==
    [kind |-> "html", html |-> <<"<html>", "<head>", HeadEnd, "<body>", HeadEnd, "</html>">>]
ReportNoHead == [kind |-> "html", html |-> <<"<p>", "</p>">>]

ReportDay == <<"2", "0", "2", "6", "-", "0", "3", "-", "1", "4">>
AsofParams == {ReportDay, <<"2", "0", "2", "6", "-", "0", "3", "-", "1", "3">>, <<"2", "0", "2", "6", "-", "1", "3", "-", "4", "5">>, <<"2", "0", "2", "6", "-", "3", "-", "1", "4">>, <<"2", "0", "2", "6", "0", "3", "1", "4">>, <<"2", "0", "2", "6", "-", "0", "3", "-", "1", "4", "x">>}
ApiCodes == {CachedCode, <<"9", "9", "9", "9">>, <<"1", "2", "3", "4", "5">>, <<"a", "b", "c", "d">>, <<"1", "2", "3">>}
Modes == {Undefined, Some(<<"e", "i", "n", "k">>), Some(<<"E", "i", "n", "k">>), Some(<<"i", "n", "k">>)}

CacheFile(code, text) == OneFile(cachePathForCode(code), text)
PicksFile(asof, j) == OneFile(picksPathForAsof(asof), j)
ReportFile(asof, h) == OneFile(reportPathForAsof(asof), h)

\* every kind of file for the report day, and files named like parameters
\* that the handlers refuse
FullDisk ==
    CacheFile(CachedCode, CsvText(3, 2, "textVolume", TRUE))
    @@ CacheFile(<<"a", "b", "c", "d">>, CsvText(3, 0, "cols5", TRUE))
    @@ CacheFile(<<"1", "2", "3", "4", "5">>, CsvText(3, 0, "cols5", TRUE))
    @@ PicksFile(ReportDay, SidecarOfTwo)
    @@ PicksFile(<<"2", "0", "2", "6", "0", "3", "1", "4">>, SidecarOfTwo)
    @@ ReportFile(ReportDay, ReportWithHead)
    @@ ReportFile(<<"2", "0", "2", "6", "-", "3", "-", "1", "4">>, ReportWithHead)
    @@ ReportFile(<<"2", "0", "2", "5", "-", "1", "2", "-", "3", "1">>, ReportNoHead)
    @@ ReportFile(<<"2", "0", "2", "6", "-", "0", "3", "-", "0", "9">>, ReportNoHead)
    @@ OneFile([dir |-> reportsDir, name |-> reportPathForAsof(ReportDay).name \o <<".", "b", "a", "k">>], ReportNoHead)
    @@ OneFile([dir |-> reportsDir, name |-> <<"x">> \o reportPathForAsof(<<"2", "0", "2", "6", "-", "0", "3", "-", "1", "2">>).name], ReportNoHead)

BrokenDisk ==
    CacheFile(CachedCode, EmptyText)
    @@ PicksFile(ReportDay, SidecarBroken)
    @@ ReportFile(ReportDay, ReportNoHead)
    @@ ReportFile(<<"2", "0", "2", "6", "-", "1", "3", "-", "4", "5">>, ReportNoHead)

SparseDisk ==
    PicksFile(ReportDay, SidecarNoPicks)
    @@ PicksFile(<<"2", "0", "2", "6", "-", "0", "3", "-", "1", "3">>, SidecarOfMany)

Disks == {NoFiles, FullDisk, BrokenDisk, SparseDisk}

\* the text of an amount in hundredths, with two decimals
DecimalText(h) == NatDigits(h \div 100) \o <<".">> \o Pad2(h % 100)

\* closes on a line: b + a * i hundredths in data row i (from 0)
Lines == {[a |-> 0, b |-> 5050], [a |-> 25, b |-> 1000], [a |-> -50, b |-> 6000]}

LinearRow(i, line) == [GoodRow(i + 1) EXCEPT ![5] = DecimalText(line.b + line.a * i)]

LinearText(n, line) ==
    <<CsvHeader>> \o [i \in 1..n |-> LinearRow(i - 1, line)] \o << << <<>> >> >>

LinearTexts == {LinearText(n, line) : n \in {MinCloses, Window + BodyExtra}, line \in Lines}

\* a text of more rows than the window, and the same with another oldest
\* close and with one more row before it
LongText == LinearText(Window + BodyExtra, [a |-> 25, b |-> 1000])
OlderRow == [GoodRow(0) EXCEPT ![5] = DecimalText(7700)]
SameWindowTexts ==
    {[LongText EXCEPT ![2][5] = DecimalText(7700)], <<CsvHeader, OlderRow>> \o Tail(LongText)}

\* what a fetch of the upstream can come to
UpstreamTexts ==
    LinearTexts \cup SameWindowTexts \cup
    {CsvText(n, 0, "cols5", TRUE) : n \in (MinCloses - 1)..(MinCloses + BodyExtra)}
    \cup {CsvText(Window + BodyExtra, 1, "infClose", TRUE),
          CsvText(MinCloses, 2, "infClose", TRUE),
          CsvText(MinCloses - 1, 2, "emptyClose", TRUE),
          CsvText(MinCloses, 2, "emptyClose", TRUE),
          CsvText(MinCloses, MinCloses, "spaceDate", TRUE),
          CsvText(MinCloses + BodyExtra, MinCloses + BodyExtra, "textDate", TRUE),
          CsvText(MinCloses + BodyExtra, 2, "textDate", TRUE),
          CsvText(MinCloses, MinCloses, "cols5", FALSE),
          EmptyText}

NetAnswers ==
    {[kind |-> "timeout"], [kind |-> "failed"]}
    \cup {[kind |-> "answer", status |-> s] : s \in {404, 500}}
    \cup {[kind |-> "answer", status |-> 200, text |-> t] : t \in UpstreamTexts}

ApiInit ==
    /\ files \in Disks
    /\ clock = [now |-> Instants[1], zone |-> "UTC"]
    /\ net = NoNet
    /\ req = NoRequest
    /\ io = <<>>
    /\ resp = NoResponse
    /\ prev = NoResponse
    /\ ParserOff
    /\ ClientOff

PredictGET(code) ==
    \E ans \in NetAnswers :
        /\ req' = [ep |-> "predict", param |-> code, at |-> clock.now]
        /\ LET r == PredictHandler(code, ans)
           IN  /\ io' = r.io /\ resp' = r.resp
               /\ net' = IF r.io = <<>> THEN NoNet ELSE ans
        /\ prev' = NoResponse
        /\ UNCHANGED <<clock, files>>
        /\ UNCHANGED parserVars
        /\ UNCHANGED clientVars

PicksGET(asof) ==
    /\ req' = [ep |-> "picks", param |-> asof, at |-> clock.now]
    /\ LET r == PicksHandler(asof, files)
       IN  io' = r.io /\ resp' = r.resp
    /\ net' = NoNet
    /\ prev' = NoResponse
    /\ UNCHANGED <<clock, files>>
    /\ UNCHANGED parserVars
    /\ UNCHANGED clientVars

HtmlGET(asof, mode) ==
    /\ req' = [ep |-> "html", param |-> asof, mode |-> mode, at |-> clock.now]
    /\ LET r == HtmlHandler(asof, mode, files)
       IN  io' = r.io /\ resp' = r.resp
    /\ net' = NoNet
    /\ prev' = NoResponse
    /\ UNCHANGED <<clock, files>>
    /\ UNCHANGED parserVars
    /\ UNCHANGED clientVars

ReportGET(asof) ==
    /\ req' = [ep |-> "report", param |-> asof, at |-> clock.now]
    /\ LET r == ReportHandler(asof, files)
       IN  io' = r.io /\ resp' = r.resp
    /\ net' = NoNet
    /\ prev' = NoResponse
    /\ UNCHANGED <<clock, files>>
    /\ UNCHANGED parserVars
    /\ UNCHANGED clientVars

DatesGET ==
    \E out \in ReaddirOutcomes(files, reportsDir) :
        /\ req' = [ep |-> "dates", at |-> clock.now]
        /\ LET r == DatesHandler(out)
           IN  io' = r.io /\ resp' = r.resp
        /\ net' = NoNet
        /\ prev' = NoResponse
        /\ UNCHANGED <<clock, files>>
        /\ UNCHANGED parserVars
        /\ UNCHANGED clientVars

ApiNext ==
    \/ \E code \in ApiCodes : PriceGET(code)
    \/ \E code \in ApiCodes : PredictGET(code)
    \/ \E asof \in AsofParams : PicksGET(asof)
    \/ \E asof \in AsofParams, mode \in Modes : HtmlGET(asof, mode)
    \/ \E asof \in AsofParams : ReportGET(asof)
    \/ DatesGET

ApiSpec == ApiInit /\ [][ApiNext]_vars

---------------------------------------------------------------------------
(* Claims about the validation of the parameters *)

CodeEndpoints == {"price", "predict"}
AsofEndpoints == {"picks", "html", "report"}

\* YYYY-MM-DD: four digits, two digits and two digits, joined by "-"
IsYmdShape(s) ==
    /\ Len(s) = 10
    /\ \A i \in 1..10 : IF i \in {5, 8} THEN s[i] = "-" ELSE s[i] \in Digits

BadParameter ==
    \/ req.ep \in CodeEndpoints /\ ~FourDigits(req.param)
    \/ req.ep \in AsofEndpoints /\ ~IsYmdShape(req.param)

\* C7: a request to the price, predict, picks-by-date or report-html-by-date
\* endpoint whose code is not exactly 4 digits, or whose asof is not of the
\* shape YYYY-MM-DD, is answered with status 400, and the handler makes no
\* file existence check, no file read and no fetch.
C7_RejectsBeforeIO ==
    BadParameter => resp.status = 400 /\ resp.ok = FALSE /\ io = <<>>

\* a refused parameter that names a file on disk
C7_Witness ==
    /\ BadParameter
    /\ resp.status = 400
    /\ \/ req.ep \in CodeEndpoints /\ CacheFileOf(req.param) \in DOMAIN files
       \/ req.ep = "picks" /\ picksPathForAsof(req.param) \in DOMAIN files
       \/ req.ep \in {"html", "report"} /\ reportPathForAsof(req.param) \in DOMAIN files

---------------------------------------------------------------------------
(* Claims about the series of the price endpoint *)

\* C11: every series the price endpoint returns, from the cache or
\* synthetic, is ordered oldest first and holds at most 200 candles.
C11_OldestFirstAtMost200 ==
    (PriceServed /\ resp.status = 200) =>
        /\ Len(resp.series) <= 200
        /\ \A i \in 1..(Len(resp.series) - 1) :
              DateKey(resp.series[i].date) <= DateKey(resp.series[i + 1].date)

---------------------------------------------------------------------------
(* Claims about the forecast endpoint *)

\* the forecast endpoint got an answer with an ok status from the upstream
PredictAnswered ==
    /\ req.ep = "predict" /\ FourDigits(req.param)
    /\ net.kind = "answer" /\ net.status \in 200..299

\* a data row of the answer that gives a closing value: 6 columns, a date,
\* and a close that reads as a finite number (a blank close reads as 0)
GivesClose(row) ==
    /\ Len(row) >= 6
    /\ row[1] # <<>>
    /\ ReadsAsFiniteNumber(row[5])

\* the rows of the answer after its header row that give a closing value
CloseRows == SelectSeq(Tail(net.text), GivesClose)

\* C12: when the answer of the upstream gives fewer than 30 valid closing
\* values (zeros counted), the forecast endpoint answers status 200 with
\* ok = true and an empty forecast.
C12_EmptyForecast ==
    (PredictAnswered /\ Len(CloseRows) < 30) =>
        /\ resp.status = 200 /\ resp.ok = TRUE
        /\ resp.forecast = <<>>

IsZeroClose(row) == Trim(row[5]) = <<>>

\* 29 closing values, one of them zero
C12_Witness ==
    /\ PredictAnswered
    /\ Len(CloseRows) = 29
    /\ \E i \in 1..29 : IsZeroClose(CloseRows[i])
    /\ resp.ok = TRUE /\ resp.forecast = <<>>

\* the date column of the last row that gives a closing value
LastKnownDate == CloseRows[Len(CloseRows)][1]

\* the forecast has 10 points, the k-th dated k calendar days after the
\* last known date
TenDatedPoints ==
    /\ resp.status = 200
    /\ Len(resp.forecast) = 10
    /\ \A k \in 1..10 :
          /\ IsDayText(resp.forecast[k].date)
          /\ DayOfText(resp.forecast[k].date) = DayOfText(LastKnownDate) + k
    /\ \A k \in 1..9 :
          DateKey(resp.forecast[k].date) < DateKey(resp.forecast[k + 1].date)
    /\ \A k \in 1..10 :
          DateKey(LastKnownDate) < DateKey(resp.forecast[k].date)

\* C13 as stated: when at least 30 closes are available the forecast has
\* exactly 10 points, the k-th dated the last known date plus k calendar
\* days, so the dates are strictly increasing and all later than the date
\* of the last candle.
C13_TenDatedPoints ==
    (PredictAnswered /\ Len(CloseRows) >= 30) => TenDatedPoints

\* the part of C13 that holds: the same, when the date of the last row
\* names a calendar day
C13_WhenLastDateIsADay ==
    (PredictAnswered /\ Len(CloseRows) >= 30 /\ IsDayText(LastKnownDate)) =>
        TenDatedPoints

\* a closing value in hundredths (closes of at most two decimals)
Hundredths(field) ==
    LET v == StringToNumber(field) IN v.m * Pow10(2 - v.e)

\* the closes of the rows are on a line: close i (from 0) is c0 + a * i
OnALine(rows) ==
    LET c(i) == Hundredths(rows[i + 1][5])
        a    == c(1) - c(0)
    IN  \A i \in 0..(Len(rows) - 1) : c(i) = c(0) + a * i

\* the value of that line at index i, in hundredths
LineAt(rows, i) ==
    LET c0 == Hundredths(rows[1][5])
        a  == Hundredths(rows[2][5]) - c0
    IN  c0 + a * i

\* the closes of the forecast are those of the line of the rows, at the k-th
\* index after the last row
ProjectsTheLine(rows, forecast) ==
    /\ Len(forecast) = 10
    /\ \A k \in 1..10 : forecast[k].close = Fin(LineAt(rows, Len(rows) - 1 + k), 2)

\* C14: for closes y_i = a * i + b (30 or more of them) the k-th projected
\* close of the forecast is the value of that line at the k-th index after
\* the last close, k = 1..10; a constant sequence projects that constant.
C14_ProjectsTheLine ==
    (PredictAnswered /\ Len(CloseRows) >= 30 /\ OnALine(CloseRows)
        /\ resp.status = 200) =>
        ProjectsTheLine(CloseRows, resp.forecast)

\* a falling line of more closes than the window holds
C14_Witness ==
    /\ PredictAnswered /\ resp.status = 200
    /\ Len(CloseRows) > 60 /\ OnALine(CloseRows)
    /\ LineAt(CloseRows, 1) < LineAt(CloseRows, 0)
    /\ Len(resp.forecast) = 10

\* a successful response of the forecast endpoint
PredictSucceeded == req.ep = "predict" /\ resp.status = 200 /\ resp.ok = TRUE

\* C15: every successful response of the forecast endpoint carries the
\* method identifier "linear-regression-close", with 10 points and with an
\* empty forecast alike.
C15_MethodAlways ==
    PredictSucceeded =>
        /\ "method" \in DOMAIN resp
        /\ resp.method = "linear-regression-close"

\* the part of C15 that holds: a response with forecast points names the method
C15_MethodWithPoints ==
    (PredictSucceeded /\ resp.forecast # <<>>) =>
        /\ "method" \in DOMAIN resp
        /\ resp.method = "linear-regression-close"

\* the fetch of the forecast endpoint got no answer within the time limit
PredictTimedOut ==
    req.ep = "predict" /\ FourDigits(req.param) /\ net.kind = "timeout"

\* a failure response built by the handler, as opposed to an exception
\* that left it
ClassifiedFailure ==
    /\ "thrown" \notin DOMAIN resp
    /\ resp.ok = FALSE

\* C16: when the upstream has not answered within 25 seconds the forecast
\* endpoint ends with a failure response of its own that names the timeout,
\* other than the upstream-status failure (502 "stooq error") and the
\* invalid-input failure; it never ends in an unclassified error.
C16_TimeoutClassified ==
    PredictTimedOut =>
        /\ ClassifiedFailure
        /\ resp.status \notin {400, 502}
        /\ resp.error \notin {"invalid code", "stooq error"}

\* the part of C16 that holds: the request ends (it does not hang), not as
\* the 502 of an upstream status and not as the 400 of an invalid input
C16_TimeoutEnds ==
    PredictTimedOut =>
        /\ resp.status = 500
        /\ io = <<[op |-> "fetch", url |-> StooqUrl(req.param)]>>

---------------------------------------------------------------------------
(* Claims about malformed rows *)

\* a malformed record: a line that is not blank and is not 6 columns of a
\* calendar date and five numbers
IsMalformedRecord(row) ==
    /\ row # << <<>> >>
    /\ ~(/\ Len(row) = 6
         /\ IsDayText(row[1])
         /\ \A k \in 2..6 : ReadsAsFiniteNumber(row[k]))

HasMalformedRecord(text) ==
    \E i \in 2..Len(text) : IsMalformedRecord(text[i])

\* the price endpoint read a cache file, or the forecast endpoint an answer
\* of the upstream, that holds a malformed record
ReadMalformedRecord ==
    \/ CacheCase /\ HasMalformedRecord(files[CacheFileOf(req.param)])
    \/ PredictAnswered /\ HasMalformedRecord(net.text)

\* C17: a cache file or an upstream answer with malformed data rows (wrong
\* column count, non-numeric fields, missing or unparseable date) never
\* makes the price or the forecast endpoint fail: the response is a success.
C17_MalformedNeverFails ==
    ReadMalformedRecord => resp.status = 200 /\ resp.ok = TRUE

\* the part of C17 that holds: the price endpoint answers a success whatever
\* the rows of the cache file
C17_PriceNeverFails ==
    (CacheCase /\ HasMalformedRecord(files[CacheFileOf(req.param)])) =>
        resp.status = 200 /\ resp.ok = TRUE

---------------------------------------------------------------------------
(* Claims about the picks-by-date endpoint *)

\* the sidecar file of a date: reports/nikkei-picks-<date>.json
SidecarOf(date) ==
    [dir |-> "reports",
     name |-> <<"n", "i", "k", "k", "e", "i", "-", "p", "i", "c", "k", "s", "-">>
              \o date \o <<".", "j", "s", "o", "n">>]

\* a request for the picks of a well-formed date
PicksAsked == req.ep = "picks" /\ IsYmdShape(req.param)

\* C18: picks asked for a well-formed date that has no sidecar file are
\* answered with a not-found failure (ok = false, status 404), never with a
\* success and an empty list.
C18_NotFound ==
    (PicksAsked /\ SidecarOf(req.param) \notin DOMAIN files) =>
        /\ resp.status = 404 /\ resp.ok = FALSE
        /\ "picks" \notin DOMAIN resp

\* a calendar day without a sidecar, the day after it with one
C18_Witness ==
    /\ PicksAsked /\ IsDayText(req.param)
    /\ SidecarOf(req.param) \notin DOMAIN files
    /\ SidecarOf(IsoDate(DayOfText(req.param) + 1)) \in DOMAIN files
    /\ resp.status = 404

\* the picks endpoint read a sidecar that is JSON
SidecarRead ==
    /\ PicksAsked
    /\ SidecarOf(req.param) \in DOMAIN files
    /\ files[SidecarOf(req.param)].kind = "json"

\* the entries of the sidecar: its picks array, empty when it has none
Entries ==
    LET j == files[SidecarOf(req.param)]
    IN  IF j.picks = <<>> THEN <<>> ELSE j.picks[1]

\* the code of an entry as text: a string as it is, a number in decimal
CodeText(code) == IF code.t = "str" THEN code.v ELSE NatDigits(code.v)

\* the Pick is entry e at position i (from 1)
IsPickOfEntry(p, e, i) ==
    /\ p.rank = i
    /\ p.takeProfit = e.take_profit
    /\ e.code # <<>> => p.code = CodeText(e.code[1])
    /\ p.name = e.name /\ p.score = e.score /\ p.close = e.close
    /\ p.entry = e.entry /\ p.stop = e.stop /\ p.reasons = e.reasons

PicksAreEntries(ps, es) ==
    /\ Len(ps) = Len(es)
    /\ \A i \in 1..Len(es) : IsPickOfEntry(ps[i], es[i], i)

\* C19: for a sidecar with n entries the picks-by-date endpoint returns n
\* Picks in array order, the i-th with rank i, takeProfit the take_profit of
\* entry i, and code, name, score, close, entry, stop, reasons those of
\* entry i; the ranks are 1..n.
C19_PicksAreEntries ==
    SidecarRead =>
        /\ resp.status = 200 /\ resp.ok = TRUE
        /\ PicksAreEntries(resp.picks, Entries)

\* two entries, one with every member and one with a code only
C19_Witness ==
    /\ SidecarRead /\ resp.status = 200
    /\ Len(resp.picks) = 2
    /\ resp.picks[1].takeProfit # <<>> /\ resp.picks[2].takeProfit = <<>>
    /\ resp.picks[2].rank = 2

\* C20: the picks-by-date endpoint never returns more than 10 Picks, and
\* every Pick it returns has a code of 4 digits, whatever the entries of
\* the sidecar.
C20_TopTenFourDigits ==
    (req.ep = "picks" /\ resp.status = 200) =>
        /\ Len(resp.picks) <= 10
        /\ \A i \in 1..Len(resp.picks) : FourDigits(resp.picks[i].code)

---------------------------------------------------------------------------
(* Claims about the report-dates endpoint *)

DatesAsked == req.ep = "dates"

\* the directory was listed
DirectoryListed == DatesAsked /\ io[1].result.kind = "names"

\* the name of the report of date d
ReportNameOf(d) ==
    <<"n", "i", "k", "k", "e", "i", "-", "r", "e", "p", "o", "r", "t", "-">> \o d \o <<".", "h", "t", "m", "l">>

\* the dates D of shape YYYY-MM-DD that have a file nikkei-report-D.html
ReportDates ==
    {d \in {SubSeq(n, 15, 24) : n \in {m \in NamesIn(files, "reports") : Len(m) >= 24}} :
        IsYmdShape(d) /\ ReportNameOf(d) \in NamesIn(files, "reports")}

\* C21: the report-dates endpoint returns exactly the dates D that have a
\* file named nikkei-report-D.html in the reports directory, none twice,
\* most recent first.
C21_ExactlyTheReportDates ==
    DirectoryListed =>
        /\ resp.status = 200 /\ resp.ok = TRUE
        /\ {resp.dates[i] : i \in 1..Len(resp.dates)} = ReportDates
        /\ Len(resp.dates) = Cardinality(ReportDates)
        /\ \A i \in 1..(Len(resp.dates) - 1) :
              DateKey(resp.dates[i]) > DateKey(resp.dates[i + 1])

\* three dates or more come back from a listing that had them in another
\* order, among names that are no report's
C21_Witness ==
    /\ DirectoryListed
    /\ Len(resp.dates) >= 3
    /\ Len(io[1].result.names) > Len(resp.dates)
    /\ \E i, j \in 1..Len(io[1].result.names) :
          /\ i < j
          /\ io[1].result.names[i] = ReportNameOf(resp.dates[3])
          /\ io[1].result.names[j] = ReportNameOf(resp.dates[1])

\* C22: when the reports directory is missing or unreadable, or holds no
\* matching file, the report-dates endpoint answers ok = true with an empty
\* list of dates, and never an error status or an exception.
C22_EmptyNeverAnError ==
    DatesAsked =>
        /\ resp.status = 200 /\ resp.ok = TRUE
        /\ (io[1].result.kind = "throws" \/ ReportDates = {}) => resp.dates = <<>>

\* the directory could not be read while reports are in it
C22_Witness ==
    /\ DatesAsked
    /\ io[1].result.kind = "throws"
    /\ ReportDates # {}
    /\ resp.status = 200 /\ resp.dates = <<>>

\* the directory is missing
C22_WitnessMissing ==
    /\ DatesAsked
    /\ io[1].result = [kind |-> "throws", error |-> "ENOENT"]
    /\ resp.dates = <<>>

\* the directory holds files and none is a report
C22_WitnessNoMatch ==
    /\ DirectoryListed
    /\ io[1].result.names # <<>>
    /\ resp.dates = <<>>

\* the last overview line of md for a code
LastOverviewOf(code) ==
    CHOOSE i \in OverviewIdx :
        /\ md[i].code = code
        /\ \A j \in OverviewIdx : md[j].code = code => j <= i

\* a number token read as a number: absent unless it is digits with at most
\* one dot
TokenValue(tok) ==
    IF IsDecimalLiteral(tok) THEN Some(DecimalValue(tok)) ELSE Undefined

\* the Pick is the record built from the overview line
BuiltFromLine(p, line) ==
    /\ p.rank = DigitsValue(line.rank)
    /\ p.code = line.code
    /\ p.name = (IF Trim(line.name) = <<>> THEN Undefined ELSE Some(Trim(line.name)))
    /\ p.entry = TokenValue(line.entry)
    /\ p.stop = TokenValue(line.stop)
    /\ p.takeProfit = TokenValue(line.tp)
    /\ p.score = TokenValue(line.score)

\* C23: when several overview lines carry the same code, the Pick for that
\* code after pass 1 is the record built from the last such line, field by
\* field: what the last line leaves absent is absent, whatever an earlier
\* line gave.
C23_LastLineWins ==
    Done =>
        /\ \A i \in OverviewIdx :
              /\ Has(seeded, md[i].code)
              /\ BuiltFromLine(Get(seeded, md[i].code), md[LastOverviewOf(md[i].code)])
        /\ \A k \in DOMAIN seeded : \E i \in OverviewIdx : md[i].code = seeded[k].code
        /\ \A k, l \in DOMAIN seeded : seeded[k].code = seeded[l].code => k = l

\* two overview lines for one code, the first with a name and the last
\* with none
C23_Witness ==
    /\ Done
    /\ \E i, j \in OverviewIdx :
          /\ i < j /\ md[i].code = md[j].code
          /\ j = LastOverviewOf(md[j].code)
          /\ Trim(md[i].name) # <<>> /\ Trim(md[j].name) = <<>>
          /\ md[i].rank # md[j].rank
          /\ Get(seeded, md[j].code).name = Undefined

\* the row is a latest-close row: a table row whose first cell holds the
\* label
IsLatestCloseRow(line) ==
    MatchRow(line) /\ Includes(line.key, LatestCloseLabel)

\* the digits and dots of the second cell of a row
CellNumberText(line) == SelectChars(line.val, Digits \cup {"."})

\* a latest-close row whose cell reads as no number
MalformedCloseRowIdx ==
    {i \in DOMAIN md : IsLatestCloseRow(md[i]) /\ ~IsDecimalLiteral(CellNumberText(md[i]))}

WellFormedCloseRowIdx ==
    {i \in DOMAIN md : IsLatestCloseRow(md[i]) /\ IsDecimalLiteral(CellNumberText(md[i]))}

\* C24: a numeric token that is not a well-formed number leaves its field
\* absent: entry, stop, takeProfit and score of a Pick whose last overview
\* line has a malformed token are absent, and a Pick whose sections hold
\* latest-close rows with malformed cells only has no close; no such field
\* is 0 or any other number.
C24_MalformedIsAbsent ==
    Done =>
        /\ \A k \in DOMAIN seeded :
              LET line == md[LastOverviewOf(seeded[k].code)]
              IN  /\ ~IsDecimalLiteral(line.entry) => seeded[k].entry = Undefined
                  /\ ~IsDecimalLiteral(line.stop) => seeded[k].stop = Undefined
                  /\ ~IsDecimalLiteral(line.tp) => seeded[k].takeProfit = Undefined
                  /\ ~IsDecimalLiteral(line.score) => seeded[k].score = Undefined
        /\ \A p \in Range(merged) :
              (\A i \in WellFormedCloseRowIdx : ~InSection(i, p.code)) => p.close = Undefined

\* what holds of the overview tokens alone
C24_OverviewTokens ==
    Done =>
        \A k \in DOMAIN seeded :
            LET line == md[LastOverviewOf(seeded[k].code)]
            IN  /\ ~IsDecimalLiteral(line.entry) => seeded[k].entry = Undefined
                /\ ~IsDecimalLiteral(line.stop) => seeded[k].stop = Undefined
                /\ ~IsDecimalLiteral(line.tp) => seeded[k].takeProfit = Undefined
                /\ ~IsDecimalLiteral(line.score) => seeded[k].score = Undefined

\* the headings of md whose code no overview line carries
OrphanHeadingIdx ==
    {h \in HeadingIdx : \A i \in OverviewIdx : md[i].code # md[h].code}

\* the Pick is in the output, or the output is full of Picks of no
\* greater rank
InOutputBySortAndCut(p) ==
    \/ p \in Range(picks)
    \/ Len(picks) = 10 /\ \A i \in DOMAIN picks : picks[i].rank <= p.rank

\* the Pick the heading at h makes
MadeByHeading(p, h) ==
    /\ p.rank = DigitsValue(md[h].rank)
    /\ p.code = md[h].code
    /\ p.name = Some(Trim(md[h].name))
    /\ p.entry = Undefined /\ p.stop = Undefined
    /\ p.takeProfit = Undefined /\ p.score = Undefined

\* C25 as stated: every detail heading whose code has no overview Pick
\* makes a Pick of its rank, code and name, without entry, stop, takeProfit
\* and score, which is in the output up to the sort and the cut to 10.
C25_Original ==
    Done =>
        \A h \in OrphanHeadingIdx :
            \E p \in Range(merged) : MadeByHeading(p, h) /\ InOutputBySortAndCut(p)

\* the first heading of md for the code of heading h
IsFirstHeadingOfCode(h) ==
    \A g \in HeadingIdx : md[g].code = md[h].code => h <= g

\* C25 amended: the first detail heading of a code that has no overview
\* Pick makes a Pick of its rank, code and name, without entry, stop,
\* takeProfit and score; when the rank is at least 1 that Pick is in the
\* output up to the sort and the cut to 10.
C25_HeadingMakesPick ==
    Done =>
        \A h \in OrphanHeadingIdx :
            IsFirstHeadingOfCode(h) =>
                \E p \in Range(merged) :
                    /\ MadeByHeading(p, h)
                    /\ p.rank >= 1 => InOutputBySortAndCut(p)

\* a heading alone made a Pick that is returned, beside Picks of overview
\* lines
C25_Witness ==
    /\ Done
    /\ OverviewIdx # {}
    /\ \E h \in OrphanHeadingIdx :
          /\ IsFirstHeadingOfCode(h)
          /\ \E i \in DOMAIN picks : MadeByHeading(picks[i], h)

\* the close a latest-close row gives: the number its cell reads as
CloseOfRow(line) == StringToNumber(CellNumberText(line))

\* the latest-close rows in the sections of a code that give a number
ClosingRowIdx(code) ==
    {i \in DOMAIN md :
        IsLatestCloseRow(md[i]) /\ InSection(i, code) /\ IsFinite(CloseOfRow(md[i]))}

\* the close of a code after the detail pass: that of the last
\* latest-close row of its sections
CloseBySection(code) ==
    IF ClosingRowIdx(code) = {} THEN Undefined
    ELSE Some(CloseOfRow(md[CHOOSE i \in ClosingRowIdx(code) :
                                \A j \in ClosingRowIdx(code) : j <= i]))

\* C26: in the detail pass every latest-close row and every accepted
\* bullet goes to the Pick of the nearest heading before it and to no
\* other: the close and the reasons of a Pick are those of the lines of
\* its own sections, and lines before the first heading change no Pick.
C26_NearestHeading ==
    Done =>
        /\ \A p \in Range(merged) :
              /\ p.close = CloseBySection(p.code)
              /\ p.reasons = (IF ReasonsUpTo(Len(md), p.code) = <<>> THEN Undefined
                              ELSE Some(ReasonsUpTo(Len(md), p.code)))
              /\ (\A h \in HeadingIdx : md[h].code # p.code) => p = Get(seeded, p.code)
        /\ HeadingIdx = {} => merged = seeded

\* two sections of different codes each with a line of its own, after a
\* row or bullet that precedes the first heading
C26_Witness ==
    /\ Done
    /\ \E h1, h2 \in HeadingIdx :
          /\ h1 < h2 /\ md[h1].code # md[h2].code
          /\ \E i \in DOMAIN md : i > h2 /\ (IsLatestCloseRow(md[i]) \/ IsReason(md[i]))
          /\ Get(merged, md[h1].code).close = Undefined
          /\ Get(merged, md[h1].code).reasons = Undefined
          /\ \/ Get(merged, md[h2].code).close # Undefined
             \/ Get(merged, md[h2].code).reasons # Undefined

\* a row or bullet before the first heading, with Picks seeded
C26_WitnessBeforeHeading ==
    /\ Done
    /\ seeded # <<>>
    /\ \E i \in DOMAIN md :
          /\ IsLatestCloseRow(md[i]) \/ IsReason(md[i])
          /\ \A h \in HeadingIdx : i < h
    /\ HeadingIdx # {}

\* the closing values of the rows of an answer, as numbers
ClosesOfText(text) ==
    LET rows == SelectSeq(Tail(text), GivesClose)
    IN  [i \in 1..Len(rows) |-> StringToNumber(rows[i][5])]

LastDateOfText(text) ==
    LET rows == SelectSeq(Tail(text), GivesClose) IN rows[Len(rows)][1]

\* the last min(60, length) values of a sequence
LastWindow(cs) == SubSeq(cs, Len(cs) - Min2(60, Len(cs)) + 1, Len(cs))

\* the two answers have 30 closes or more and agree on their last
\* min(60, length) closes and on their last date
SameWindow(t1, t2) ==
    /\ Len(ClosesOfText(t1)) >= 30 /\ Len(ClosesOfText(t2)) >= 30
    /\ LastWindow(ClosesOfText(t1)) = LastWindow(ClosesOfText(t2))
    /\ LastDateOfText(t1) = LastDateOfText(t2)

\* the sum of the squares of 2 (i - xMean), i = 0..N-1: four times the
\* denominator of the slope
FourTimesDenominator(N) ==
    Sum([i \in 1..N |-> (2 * (i - 1) - (N - 1)) * (2 * (i - 1) - (N - 1))], 1, N)

\* C27: the forecast depends on the last N = min(60, available) closes and
\* the last date only: any other answer of 30 closes or more that agrees on
\* them gives the same forecast, whatever its older closes, and the
\* denominator of the slope is not zero.
C27_LastWindowOnly ==
    (PredictAnswered /\ Len(CloseRows) >= 30) =>
        /\ \A t \in UpstreamTexts :
              SameWindow(net.text, t) => PredictBody(req.param, t) = resp
        /\ FourTimesDenominator(Min2(60, Len(CloseRows))) > 0

\* an answer of more than 60 closes was served, and an answer with other
\* older closes and one with more of them agree with it on the window
C27_Witness ==
    /\ PredictAnswered /\ resp.status = 200
    /\ Len(CloseRows) > 60 /\ Len(resp.forecast) = 10
    /\ \E t1, t2 \in UpstreamTexts :
          /\ SameWindow(net.text, t1) /\ SameWindow(net.text, t2)
          /\ Len(ClosesOfText(t1)) = Len(CloseRows)
          /\ ClosesOfText(t1)[1] # ClosesOfText(net.text)[1]
          /\ Len(ClosesOfText(t2)) > Len(CloseRows)

---------------------------------------------------------------------------
(* app/page.tsx: the Home component.                                       *)
(* home is the React state of the component.  An event handler or the      *)
(* continuation of a fetch sets state, the component renders again and the *)
(* effects whose dependencies changed run: one step.  A request carries    *)
(* the einkMode of the render whose closure sent it, which is what withEink*)
(* reads when the continuation runs.  The panel switch, the level lines    *)
(* and the buttons of the paper panel touch no state modelled here and are *)
(* left out.                                                               *)

MaxEvents == 2

\* the urls of the report iframe: a path and its query parameters
LatestHtml == [path |-> <<"/api/report/latest.html">>, query |-> <<>>]
HtmlOf(d) == [path |-> <<"/api/report/html/", d>>, query |-> <<>>]

\* withEink(url), einkMode as the closure holds it: "?" or "&" then mode=eink
withEink(einkMode, url) ==
    IF ~einkMode THEN url ELSE [url EXCEPT !.query = Append(@, "mode=eink")]

\* the useState initial values
HomeInitial ==
    [mounted |-> FALSE, md |-> <<>>, einkMode |-> FALSE, reportHtmlUrl |-> LatestHtml,
     availableDates |-> <<>>, selectedDate |-> <<>>, picks |-> <<>>,
     selected |-> Undefined, paperStrategy |-> "", paperSummary |-> Undefined,
     news |-> <<>>, candles |-> <<>>, forecast |-> <<>>, forecastMethod |-> ""]

Request(to, arg, einkMode) == [to |-> to, arg |-> arg, einkMode |-> einkMode]

\* selected?.code
SelectedCode(h) == IF h.selected = Undefined THEN Undefined ELSE Some(h.selected[1].code)

\* useEffect(..., [einkMode]): keep report iframe in sync with eink toggle
SyncReportUrl(h) ==
    [h EXCEPT !.reportHtmlUrl =
        withEink(h.einkMode,
                 IF h.selectedDate # <<>> THEN HtmlOf(h.selectedDate) ELSE LatestHtml)]

\* useEffect(..., [selected?.code]): the three fetches for the code
FetchesForSelected(h) ==
    IF h.selected = Undefined THEN {}
    ELSE {Request(to, h.selected[1].code, h.einkMode) : to \in {"news", "price", "predict"}}

\* the render that follows a change of state from h0 to h1, and the effects
\* whose dependencies changed: the state after them and the requests sent
AfterRender(h0, h1) ==
    [home |-> IF h1.einkMode # h0.einkMode THEN SyncReportUrl(h1) ELSE h1,
     sent |-> IF SelectedCode(h1) # SelectedCode(h0) THEN FetchesForSelected(h1) ELSE {}]

(* The server as the dashboard sees it.  The dates and the picks of a date *)
(* are what the route handlers above answer from the files on disk; the    *)
(* latest picks are parsed from the latest report.  The routes of the raw  *)
(* report, the news, and the paper panel are not among the sources, and    *)
(* the price and forecast bodies are long: each is a body of the shape the *)
(* component reads, naming the code it was asked for.                      *)

\* latestReportPath() (lib/paths is not among the sources: an opaque path)
latestReportPath == [dir |-> "reports", name |-> <<"latest report">>]

\* GET of the latest-picks endpoint
LatestPicksHandler(fs) ==
    IF ~existsSync(fs, latestReportPath)
    THEN [status |-> 404, ok |-> FALSE, error |-> "latest report not found"]
    ELSE [status |-> 200, ok |-> TRUE,
          picks |-> parseTopPicksFromMarkdown(fs[latestReportPath].md)]

LatestBody(fs) ==
    IF ~existsSync(fs, latestReportPath) THEN [status |-> 404, ok |-> FALSE]
    ELSE [status |-> 200, ok |-> TRUE, markdown |-> fs[latestReportPath].md]

NewsBody(code) == [status |-> 200, ok |-> TRUE, news |-> <<[code |-> code]>>]
PriceBody(code) == [status |-> 200, ok |-> TRUE, code |-> code, series |-> <<[code |-> code]>>]
ForecastBody(code) ==
    [status |-> 200, ok |-> TRUE, code |-> code, forecast |-> <<[code |-> code]>>,
     method |-> "linear-regression-close"]
StrategyBody == [status |-> 200, ok |-> TRUE, strategyZh |-> "strategy"]
SummaryBody == [status |-> 200, ok |-> TRUE, summary |-> "summary"]

\* the bodies a request can be answered with
BodiesOf(r, fs) ==
    CASE r.to = "latest" -> {LatestBody(fs)}
      [] r.to = "picks" -> {LatestPicksHandler(fs)}
      [] r.to = "dates" -> {DatesHandler(out).resp : out \in ReaddirOutcomes(fs, reportsDir)}
      [] r.to = "picksOf" -> {PicksHandler(r.arg, fs).resp}
      [] r.to = "strategy" -> {StrategyBody}
      [] r.to = "summary" -> {SummaryBody}
      [] r.to = "news" -> {NewsBody(r.arg)}
      [] r.to = "price" -> {PriceBody(r.arg)}
      [] r.to = "predict" -> {ForecastBody(r.arg)}

\* await r.json() gives an object (an uncaught exception of a handler is
\* answered with a body that is no JSON)
IsJsonBody(j) == "ok" \in DOMAIN j

\* setPicks(j.picks); setSelected(j.picks?.[0] ?? null)
WithPicks(h, j) ==
    [h EXCEPT !.picks = j.picks,
              !.selected = IF j.picks = <<>> THEN Undefined ELSE Some(j.picks[1])]

\* the continuation of the dates fetch, in the closure of the first render
WithDates(h, r, j) ==
    IF Len(j.dates) > 0
    THEN [h EXCEPT !.availableDates = j.dates,
                   !.selectedDate = j.dates[1],
                   !.reportHtmlUrl = withEink(r.einkMode, HtmlOf(j.dates[1]))]
    ELSE [h EXCEPT !.availableDates = j.dates,
                   !.reportHtmlUrl = withEink(r.einkMode, LatestHtml)]

\* the state set by the continuation of request r answered with body j
Settle(h, r, j) ==
    CASE r.to = "latest" -> IF j.ok THEN [h EXCEPT !.md = j.markdown] ELSE h
      [] r.to \in {"picks", "picksOf"} -> IF j.ok THEN WithPicks(h, j) ELSE h
      [] r.to = "dates" -> IF j.ok THEN WithDates(h, r, j) ELSE h
      [] r.to = "strategy" -> IF j.ok THEN [h EXCEPT !.paperStrategy = j.strategyZh] ELSE h
      [] r.to = "summary" -> IF j.ok THEN [h EXCEPT !.paperSummary = Some(j)] ELSE h
      [] r.to = "news" -> [h EXCEPT !.news = IF j.ok THEN j.news ELSE <<>>]
      [] r.to = "price" -> [h EXCEPT !.candles = IF j.ok THEN j.series ELSE <<>>]
      [] r.to = "predict" ->
            [h EXCEPT !.forecast = IF j.ok THEN j.forecast ELSE <<>>,
                      !.forecastMethod = IF "method" \in DOMAIN j THEN j.method ELSE ""]

\* localStorage.getItem("einkMode"), null when it throws
SavedEinkMode(st) == IF st.available THEN st.einkMode ELSE Undefined

\* the first render and its effects
Mount ==
    /\ ~home.mounted
    /\ LET h1 == [HomeInitial EXCEPT !.mounted = TRUE,
                                     !.einkMode = (SavedEinkMode(storage) = Some("1"))]
           a  == AfterRender(HomeInitial, h1)
       IN  /\ home' = a.home
           /\ inflight' = SetToBag({Request(to, <<>>, FALSE) :
                                      to \in {"latest", "picks", "dates", "strategy", "summary"}})
                          (+) SetToBag(a.sent)
    /\ UNCHANGED <<storage, events>>
    /\ UNCHANGED parserVars
    /\ UNCHANGED serverVars

\* a response arrives and the continuation of its fetch runs
Respond ==
    \E r \in BagToSet(inflight) :
        \E j \in BodiesOf(r, files) :
            LET a == AfterRender(home, IF IsJsonBody(j) THEN Settle(home, r, j) ELSE home)
            IN  /\ home' = a.home
                /\ inflight' = (inflight (-) SetToBag({r})) (+) SetToBag(a.sent)
                /\ UNCHANGED <<storage, events>>
                /\ UNCHANGED parserVars
                /\ UNCHANGED serverVars

\* onClick of the e-ink button
ToggleEink ==
    /\ home.mounted /\ events < MaxEvents
    /\ LET next == ~home.einkMode
           a    == AfterRender(home, [home EXCEPT !.einkMode = next])
       IN  /\ home' = a.home
           /\ inflight' = inflight (+) SetToBag(a.sent)
           /\ storage' = IF storage.available
                         THEN [storage EXCEPT !.einkMode = Some(IF next THEN "1" ELSE "0")]
                         ELSE storage
    /\ events' = events + 1
    /\ UNCHANGED parserVars
    /\ UNCHANGED serverVars

\* onChange of the date select, to another of its options
ChangeDate(d) ==
    /\ home.mounted /\ events < MaxEvents
    /\ d # home.selectedDate
    /\ LET h1 == [home EXCEPT !.selectedDate = d,
                              !.reportHtmlUrl = withEink(home.einkMode, HtmlOf(d))]
           a  == AfterRender(home, h1)
       IN  /\ home' = a.home
           /\ inflight' = inflight (+) SetToBag({Request("picksOf", d, home.einkMode)})
                          (+) SetToBag(a.sent)
    /\ events' = events + 1
    /\ UNCHANGED storage
    /\ UNCHANGED parserVars
    /\ UNCHANGED serverVars

\* onClick of the button of pick p
SelectPick(p) ==
    /\ home.mounted /\ events < MaxEvents
    /\ LET a == AfterRender(home, [home EXCEPT !.selected = Some(p)])
       IN  /\ home' = a.home
           /\ inflight' = inflight (+) SetToBag(a.sent)
    /\ events' = events + 1
    /\ UNCHANGED storage
    /\ UNCHANGED parserVars
    /\ UNCHANGED serverVars

\* the latest report, of the report day
LatestReport ==
    [kind |-> "md",
     md |-> << OverviewLine(T("1"), <<"7", "2", "0", "3">>, <<"T", "o", "y", "o", "t", "a">>,
                            <<"2", "9", "1", "0">>, <<"2", "8", "0", "0">>, <<"3", "1", "0", "0">>,
                            <<"8", "7", ".", "5">>),
               OverviewLine(T("2"), <<"6", "7", "5", "8">>, <<"S", "o", "n", "y">>,
                            <<"1", "0", "0">>, <<"9", "0">>, <<"1", "2", "0">>, <<"0", ".", "5">>) >>]

SidecarOfOne == [kind |-> "json", picks |-> Some(<<CodeEntry(9984)>>)]

\* reports of three dates: the report day with its sidecar, an older day
\* with a sidecar of its own, and the oldest without sidecar
DashDisk ==
    FullDisk
    @@ PicksFile(<<"2", "0", "2", "6", "-", "0", "3", "-", "0", "9">>, SidecarOfOne)
    @@ OneFile(latestReportPath, LatestReport)

StorageStates ==
    {[available |-> FALSE, einkMode |-> Undefined]}
    \cup {[available |-> TRUE, einkMode |-> s] : s \in {Undefined, Some("1"), Some("0")}}

DashInit ==
    /\ home = HomeInitial
    /\ storage \in StorageStates
    /\ inflight = EmptyBag
    /\ events = 0
    /\ files = DashDisk
    /\ clock = [now |-> Instants[1], zone |-> "UTC"]
    /\ net = NoNet
    /\ req = NoRequest
    /\ io = <<>>
    /\ resp = NoResponse
    /\ prev = NoResponse
    /\ ParserOff

DashNext ==
    \/ Mount
    \/ Respond
    \/ ToggleEink
    \/ \E i \in 1..Len(home.availableDates) : ChangeDate(home.availableDates[i])
    \/ \E i \in 1..Len(home.picks) : SelectPick(home.picks[i])

DashSpec == DashInit /\ [][DashNext]_vars

---------------------------------------------------------------------------
(* Claims about the dashboard *)

\* the component is mounted and every request has been answered
Settled == home.mounted /\ inflight = EmptyBag

\* what the endpoints give for a code
ShownFor(code) ==
    /\ home.candles = PriceBody(code).series
    /\ home.forecast = ForecastBody(code).forecast
    /\ home.forecastMethod = ForecastBody(code).method
    /\ home.news = NewsBody(code).news

\* C28: once every request has completed, the candles, the forecast with
\* its method and the news on display are those fetched for the code of the
\* pick that is selected, whatever the order of the responses.
C28_ShowsSelectedCode ==
    (Settled /\ home.selected # <<>>) => ShownFor(home.selected[1].code)

\* the picks of the sidecar of a date, as the picks-by-date endpoint gives
\* them
CodesOf(ps) == [i \in 1..Len(ps) |-> ps[i].code]
PicksOfDate(d) == PicksHandler(d, files).resp

\* C29: once every request has completed, the pick list on display is that
\* of the report date shown as selected, and the selected pick is one of
\* it: after the initial load, after date changes answered in any order,
\* and when the picks request for the new date fails.
C29_PicksOfSelectedDate ==
    (Settled /\ home.selectedDate # <<>>) =>
        /\ PicksOfDate(home.selectedDate).status = 200
        /\ CodesOf(home.picks) = CodesOf(PicksOfDate(home.selectedDate).picks)
        /\ home.selected # <<>> =>
              \E i \in 1..Len(home.picks) : home.picks[i].code = home.selected[1].code

\* what holds of the initial load: before any user event the list on
\* display is that of the first date
C29_AfterInitialLoad ==
    (Settled /\ events = 0 /\ home.selectedDate # <<>>) =>
        CodesOf(home.picks) = CodesOf(PicksOfDate(home.selectedDate).picks)

\* the url of the iframe asks for the e-ink mode
AsksEink(url) == \E i \in 1..Len(url.query) : url.query[i] = "mode=eink"

\* C30: once the effects of the initial load, the fetches, the date changes
\* and the toggle clicks have settled, the report url carries mode=eink
\* exactly when einkMode is on.
C30_UrlFollowsToggle ==
    Settled => (AsksEink(home.reportHtmlUrl) <=> home.einkMode)

====
